---- MODULE Spec2Model ----
(***************************************************************************)
(* Model of the AIoT backend core: the MQTT bridge handlers that reconcile *)
(* device / gateway state (apps/devices/mqtt_worker.py), the persisted     *)
(* rows (apps/devices/models.py) and the REST operations claim, device     *)
(* create, command and discover (apps/devices/views.py).                   *)
(*                                                                         *)
(* The database is modelled at statement granularity: every ORM call of a  *)
(* handler is one step, writes issued inside `with transaction.atomic()`   *)
(* stay in the handler's transaction until the block exits, and readers    *)
(* see committed rows only (READ COMMITTED).                               *)
(***************************************************************************)
EXTENDS Integers, Sequences, FiniteSets, TLC

\* ------------------------------------------------------------------ bounds
MaxEvents == 2
MaxApiCalls == 1
MaxDrops == 1
MaxClaims == 2
MaxRows == 3
MaxCommands == 2
MaxConns == 2
MaxStamp == 3
MaxFailures == 7
MaxStops == 2

\* ------------------------------------------------------------- value sets
Workers == {"w1", "w2"}
Users == {"userA", "userB"}
GatewayIds == {"gw1", "gw2"}
DeviceIds == {"dev1"}
ModelIds == {"m1"}
Names == {"", "lab"}

NoTime == 0
NoDevice == 0
NoGateway == "none"
NoModel == "none"
NoType == "absent"

DEVICE_TYPE_SENSOR == "sensor"
DEVICE_TYPE_ACTUATOR == "actuator"
DEVICE_TYPE_CAMERA == "camera"
DEVICE_TYPE_RELAY == "relay"
DEVICE_TYPE_DIMMER == "dimmer"
DEVICE_TYPE_SWITCH == "switch"
DEVICE_TYPES ==
    {DEVICE_TYPE_SENSOR, DEVICE_TYPE_ACTUATOR, DEVICE_TYPE_CAMERA,
     DEVICE_TYPE_RELAY, DEVICE_TYPE_DIMMER, DEVICE_TYPE_SWITCH}

VARIABLES
    now,        \* timezone.now(): a logical clock, advanced by every arrival
    db,         \* committed rows: [gateways, devices, telemetry, modelDefs]
    pc,         \* pc[w]: the statement worker w's handler is at
    ev,         \* ev[w]: the event worker w is processing (or processed last)
    loc,        \* loc[w]: the handler's local `device` object
    tx,         \* tx[w]: the writes of the open transaction, in order
    issued,     \* issued[w]: how many writes w's event has issued
    applied,    \* applied[w]: how many writes of w's event are committed
    outcome,    \* outcome[w]: how the handler ended
    fresh,      \* fresh[w]: w's event arrived for a known gateway and a
                \* (gateway, device_id) pair without a row
    concurrent, \* the workers' latest events were in progress together
    fanout,     \* events sent to the "telemetry" channel group, in order
    api,        \* the in-flight REST request that takes more than one step
    apiLog,     \* the last finished REST request and its response
    nApi,       \* REST requests so far
    listing,    \* the last telemetry list request and its response
    ws,         \* WebSocket connections and the "telemetry" channel group
    enabled,    \* settings.MQTT["ENABLE"]
    brokerUp,   \* the broker accepts connections and messages
    drops,      \* how often the broker has gone away or refused
    bridge,     \* the module global `bridge` and the fields of its object
    delivered,  \* the messages handed to the broker, in order
    http,       \* the command or discover request in progress (or the last)
                \* and the thread that serves it
    asgi,       \* the thread that imports core/asgi.py
    clients,    \* how many MqttBridge objects have been made
    former      \* stop_bridge calls, and the network loop of the bridge
                \* object the last of them let go

vars == <<now, db, pc, ev, loc, tx, issued, applied, outcome, fresh,
          concurrent, fanout, api, apiLog, nApi, listing, ws, enabled, brokerUp,
          drops,
          bridge, delivered, http, asgi, clients,
                   former>>

ingestVars ==
    <<pc, ev, loc, tx, issued, applied, outcome, fresh, concurrent, fanout>>
started == <<fresh, concurrent>>
apiVars == <<api, apiLog, nApi, listing, ws>>
mqttVars ==
    <<enabled, brokerUp, drops, bridge, delivered, http, asgi, clients,
                   former>>

\* --------------------------------------------------------------- the rows
GatewayRow(g, owner, name) ==
    [gateway_id |-> g, owner |-> owner, name |-> name, last_seen |-> NoTime]

DeviceRow(id, g, d, type, online) ==
    [id |-> id, gateway |-> g, device_id |-> d, type |-> type,
     model_definition |-> NoModel, is_online |-> online,
     last_telemetry |-> NoTime]

GatewayById(rows, g) == {r \in rows.gateways : r.gateway_id = g}

DevicesOfPair(rows, g, d) ==
    {r \in rows.devices : r.gateway = g /\ r.device_id = d}

\* Position of a gateway name in the collation order of ORDER BY gateway__name
NameRank(name) == IF name = "" THEN 0 ELSE 1

GatewayNameOf(rows, g) ==
    LET gs == GatewayById(rows, g)
    IN  IF gs = {} THEN "" ELSE (CHOOSE r \in gs : TRUE).name

\* Device.objects.filter(device_id=d).first() under Meta.ordering: the rows a
\* database may return first (ties on the ordering keys are broken arbitrarily)
FirstByDeviceId(rows, d) ==
    LET match == {r \in rows.devices : r.device_id = d}
    IN  {r \in match :
            \A o \in match :
                NameRank(GatewayNameOf(rows, r.gateway))
                    <= NameRank(GatewayNameOf(rows, o.gateway))}

\* -------------------------------------------------------------- the writes
Op(kind, dev, g, d, type, t, m, payload) ==
    [op |-> kind, dev |-> dev, gateway |-> g, device_id |-> d, type |-> type,
     t |-> t, model |-> m, payload |-> payload]

\* raw: the payload is the fallback {"raw": payload_raw} of a body that is
\* not a JSON document
NoPayload ==
    [gateway_id |-> NoGateway, type |-> NoType, model_id |-> NoModel,
     raw |-> FALSE]

update_last_seen_none(rows, g, t) == rows

\* Gateway.update_last_seen
update_last_seen(rows, g, t) ==
    [rows EXCEPT !.gateways =
        {IF r.gateway_id = g THEN [r EXCEPT !.last_seen = t] ELSE r : r \in @}]

update_online_status_flip(rows, id, is_online, t) ==
    [rows EXCEPT !.devices =
        {IF r.id = id THEN [r EXCEPT !.is_online = ~@] ELSE r : r \in @}]

\* Device.update_online_status
update_online_status(rows, id, is_online, t) ==
    [rows EXCEPT !.devices =
        {IF r.id = id
            THEN [r EXCEPT !.is_online = is_online,
                           !.last_telemetry = IF is_online THEN t ELSE @]
            ELSE r : r \in @}]

\* device.save(update_fields=["model_definition", "updated_at"])
SaveModelDefinition(rows, id, m) ==
    [rows EXCEPT !.devices =
        {IF r.id = id THEN [r EXCEPT !.model_definition = m] ELSE r : r \in @}]

CreateTelemetry_replace(table, device, t, payload) ==
    <<[device |-> device, timestamp |-> t, payload |-> payload]>>

\* Telemetry.objects.create(device=device, payload=payload): a new row,
\* stamped by auto_now_add
CreateTelemetry(table, device, t, payload) ==
    Append(table, [device |-> device, timestamp |-> t, payload |-> payload])

\* One write applied to the committed rows
Apply(rows, o) ==
    CASE o.op = "create_device" ->
            [rows EXCEPT !.devices =
                @ \cup {DeviceRow(o.dev, o.gateway, o.device_id, o.type, TRUE)}]
      [] o.op = "gw_seen" -> update_last_seen(rows, o.gateway, o.t)
      [] o.op = "online" -> update_online_status(rows, o.dev, TRUE, o.t)
      [] o.op = "link" -> SaveModelDefinition(rows, o.dev, o.model)
      [] o.op = "telemetry" ->
            [rows EXCEPT !.telemetry =
                CreateTelemetry(@, o.dev, o.t, o.payload)]

RECURSIVE ApplyAll(_, _)
ApplyAll(rows, ops) ==
    IF ops = <<>> THEN rows ELSE ApplyAll(Apply(rows, Head(ops)), Tail(ops))

\* The handlers run their statements inside `with transaction.atomic():`
InAtomic_none == FALSE

InAtomic == TRUE

\* Another open transaction holds an uncommitted insert of the pair (g, d):
\* the unique index makes a second inserter wait for its commit or rollback
PendingInsert(w, g, d) ==
    \E o \in Workers \ {w} :
        \E i \in 1..Len(tx[o]) :
            /\ tx[o][i].op = "create_device"
            /\ tx[o][i].gateway = g
            /\ tx[o][i].device_id = d

UsedPks ==
    {r.id : r \in db.devices}
        \cup UNION {{tx[w][i].dev : i \in 1..Len(tx[w])} : w \in Workers}

\* The primary key the sequence hands to the next inserted Device row
NextPk ==
    LET used == UsedPks \cup {NoDevice}
    IN  1 + (CHOOSE m \in used : \A x \in used : x <= m)

\* Mutant: the table has no unique index on (gateway, device_id)
UniqueViolation_none(rows, g, d) == FALSE

\* Device.Meta.unique_together = ("gateway", "device_id")
UniqueViolation(rows, g, d) == DevicesOfPair(rows, g, d) # {}

\* The rows, open transaction and committed-write count of worker w after
\* the statements' writes `ops`, the first `n` of which succeed: inside the
\* atomic block they are buffered, outside it each is committed at once
Issued(w, ops, n) ==
    LET done == SubSeq(ops, 1, n)
    IN  IF InAtomic
           THEN [rows |-> db, tx |-> tx[w] \o done, applied |-> applied[w]]
           ELSE [rows |-> ApplyAll(db, done), tx |-> tx[w],
                 applied |-> applied[w] + n]

NoLocal ==
    [device |-> NoDevice, gateway |-> NoGateway, model_definition |-> NoModel]

\* The statements of one step issue the writes `ops`; an exception at one of
\* them leaves the atomic block (the open transaction is rolled back) and is
\* logged by the handler's `except Exception`
Write(w, ops, next) ==
    \E n \in 0..Len(ops) :
        LET r == Issued(w, ops, n)
        IN  /\ db' = r.rows
            /\ issued' = [issued EXCEPT ![w] = @ + n]
            /\ applied' = [applied EXCEPT ![w] = r.applied]
            /\ IF n = Len(ops)
                  THEN /\ tx' = [tx EXCEPT ![w] = r.tx]
                       /\ pc' = [pc EXCEPT ![w] = next]
                       /\ outcome' = outcome
                  ELSE /\ tx' = [tx EXCEPT ![w] = <<>>]
                       /\ pc' = [pc EXCEPT ![w] = "idle"]
                       /\ outcome' = [outcome EXCEPT ![w] = "error"]

\* An exception `why` before any write of the step
Fail(w, why) ==
    /\ tx' = [tx EXCEPT ![w] = <<>>]
    /\ pc' = [pc EXCEPT ![w] = "idle"]
    /\ outcome' = [outcome EXCEPT ![w] = why]
    /\ UNCHANGED <<db, issued, applied>>

\* The handler's local object after a step: forgotten when the handler ended
Local(w, l) == [loc EXCEPT ![w] = IF pc'[w] = "idle" THEN NoLocal ELSE l]

NoRequest ==
    [op |-> "none", user |-> "none", gateway_id |-> NoGateway,
     device_id |-> "none", name |-> "", type |-> NoType]

NoEvent ==
    [kind |-> "none", device_id |-> "none", payload |-> NoPayload,
     t |-> NoTime, topic |-> <<>>, form |-> "none"]

\* bridge is None; loop: client.loop_start() has been called
NoBridge ==
    [exists |-> FALSE, connected |-> FALSE, attempts |-> 0, pending |-> FALSE,
     lost |-> FALSE, loop |-> FALSE]

\* No stop_bridge call yet
NoFormer == [stops |-> 0, loop |-> "none"]

\* A bridge object whose on_connect has run
ConnectedBridge ==
    [exists |-> TRUE, connected |-> TRUE, attempts |-> 0, pending |-> FALSE,
     lost |-> FALSE, loop |-> TRUE]

Absent == [k |-> "absent", s |-> "", n |-> 0]

\* extra: the metadata keys for which the caller sends values of its own
NoBody ==
    [action |-> Absent, state |-> Absent, brightness |-> Absent,
     quality |-> Absent, extra |-> {}]

\* down, reinit: _send_mqtt_command found no connected bridge, and how often
\* it has called start_bridge_if_enabled
NoHttp ==
    [pc |-> "none", op |-> "none", user |-> "none", target |-> "none",
     body |-> NoBody, ret |-> "none", status |-> 0, handed |-> FALSE,
     tries |-> 0, wait_time |-> 0, failed |-> 0, down |-> FALSE,
     reinit |-> 0]

\* django.contrib.auth.models.AnonymousUser
AnonymousUser == "anonymous"

\* The WebSocket connections the server can hold at once
Connections == 1..MaxConns

\* A connection that has not been opened
NoSocket ==
    [pc |-> "none", token |-> "none", session |-> AnonymousUser,
     user |-> AnonymousUser, seen |-> 0, inbox |-> {}]

\* No connection is open and the group has no member
NoSockets == [conn |-> [c \in Connections |-> NoSocket], group |-> {}]

\* No telemetry list request has been made
NoListing ==
    [user |-> "none", device |-> Absent, device_type |-> Absent,
     since |-> Absent, until |-> Absent, limit |-> Absent,
     status |-> 0, results |-> <<>>]

\* No REST or HTTP request is in progress and the handlers are idle
InitIdle ==
    /\ now = 0
    /\ pc = [w \in Workers |-> "idle"]
    /\ ev = [w \in Workers |-> NoEvent]
    /\ loc = [w \in Workers |-> NoLocal]
    /\ tx = [w \in Workers |-> <<>>]
    /\ issued = [w \in Workers |-> 0]
    /\ applied = [w \in Workers |-> 0]
    /\ outcome = [w \in Workers |-> "none"]
    /\ fresh = [w \in Workers |-> FALSE]
    /\ concurrent = FALSE
    /\ fanout = <<>>
    /\ api = NoRequest
    /\ apiLog = [req |-> NoRequest, status |-> 0, before |-> {}, after |-> {}]
    /\ nApi = 0
    /\ listing = NoListing
    /\ ws = NoSockets
    /\ drops = 0
    /\ delivered = <<>>
    /\ http = NoHttp
    /\ asgi = NoHttp

\* What the specifications of the message handlers and of the REST writes
\* start from, but for the rows: the bridge is connected
InitRest ==
    /\ InitIdle
    /\ enabled = TRUE
    /\ brokerUp = TRUE
    /\ bridge = ConnectedBridge
    /\ clients = 1
    /\ former = NoFormer

\* The state after construction: an empty database
InitEmpty ==
    /\ db = [gateways |-> {}, devices |-> {}, telemetry |-> <<>>,
             modelDefs |-> {}]
    /\ InitRest

\* The bridge is started against a database in which two gateways have been
\* claimed (the state SpecClaim reaches by one claim of each user)
ClaimedGateways ==
    {GatewayRow("gw1", "userA", ""), GatewayRow("gw2", "userB", "")}

Init ==
    /\ db = [gateways |-> ClaimedGateways, devices |-> {},
             telemetry |-> <<>>, modelDefs |-> {}]
    /\ InitRest

\* ------------------------------------------------- the bridge's handlers
UnknownGateway == "gw3"

\* The messages a specification's environment publishes
Events(kinds, gateways, types, models) ==
    [kind : kinds, device_id : DeviceIds,
     payload : [gateway_id : gateways, type : types, model_id : models,
                raw : {FALSE}]]

\* payload.get("type", Device.DEVICE_TYPE_SENSOR)
TypeOfPayload(p) == IF p.type = NoType THEN DEVICE_TYPE_SENSOR ELSE p.type

\* _handle_device_message: a heartbeat or data event is handed to its handler
Dispatch(w, e, topic, form) ==
    /\ ev' = [ev EXCEPT ![w] =
                  [kind |-> e.kind, device_id |-> e.device_id,
                   payload |-> e.payload, t |-> now + 1, topic |-> topic,
                   form |-> form]]
    /\ fresh' = [fresh EXCEPT ![w] =
          /\ GatewayById(db, e.payload.gateway_id) # {}
          /\ DevicesOfPair(db, e.payload.gateway_id, e.device_id) = {}]
    /\ concurrent' = \E o \in Workers \ {w} : pc[o] # "idle"
    /\ pc' = [pc EXCEPT ![w] = "find"]
    /\ issued' = [issued EXCEPT ![w] = 0]
    /\ applied' = [applied EXCEPT ![w] = 0]
    /\ outcome' = [outcome EXCEPT ![w] = "none"]
    /\ now' = now + 1
    /\ UNCHANGED <<db, loc, tx, fanout, apiVars, mqttVars>>

\* on_message -> _handle_device_message: a devices/{d}/heartbeat or
\* devices/{d}/data message with a JSON object as body
Receive(w, events) ==
    /\ pc[w] = "idle"
    /\ now < MaxEvents
    /\ \E e \in events : Dispatch(w, e, <<"devices", e.device_id, e.kind>>, "object")

\* device = Device.objects.filter(device_id=device_id)
\*              .select_related("gateway").first()
Find(w) ==
    /\ pc[w] = "find"
    /\ LET found == FirstByDeviceId(db, ev[w].device_id)
       IN  IF found = {}
              THEN /\ pc' = [pc EXCEPT ![w] = "get_gateway"]
                   /\ loc' = loc
              ELSE \E r \in found :
                      /\ loc' = [loc EXCEPT ![w] =
                                    [device |-> r.id, gateway |-> r.gateway,
                                     model_definition |-> r.model_definition]]
                      /\ pc' = [pc EXCEPT ![w] =
                                    IF ev[w].kind = "heartbeat"
                                       THEN "heartbeat" ELSE "link"]
    /\ UNCHANGED <<now, db, ev, tx, issued, applied, outcome, started, fanout,
                   apiVars, mqttVars>>

NoGatewayFor_absent(rows, g) == g = NoGateway

\* if gateway_id: gateway = Gateway.objects.filter(...).first(); the handler
\* goes on only with a gateway row
NoGatewayFor(rows, g) == g = NoGateway \/ GatewayById(rows, g) = {}

\* gateway_id = payload.get("gateway_id");
\* gateway = Gateway.objects.filter(gateway_id=gateway_id).first()
\* Without a resolvable gateway the event is dropped with a warning
GetGateway(w) ==
    /\ pc[w] = "get_gateway"
    /\ LET g == ev[w].payload.gateway_id
       IN  IF NoGatewayFor(db, g)
              THEN /\ pc' = [pc EXCEPT ![w] = "idle"]
                   /\ outcome' = [outcome EXCEPT ![w] = "dropped"]
                   /\ loc' = loc
              ELSE /\ pc' = [pc EXCEPT ![w] = "create"]
                   /\ outcome' = outcome
                   /\ loc' = [loc EXCEPT ![w].gateway = g]
    /\ UNCHANGED <<now, db, ev, tx, issued, applied, started, fanout, apiVars, mqttVars>>

\* device = Device.objects.create(gateway=gateway, device_id=device_id,
\*              type=..., model=..., name=..., is_online=True)
\* gateway.update_last_seen()
CreateDevice(w) ==
    /\ pc[w] = "create"
    /\ ~PendingInsert(w, loc[w].gateway, ev[w].device_id)
    /\ LET g == loc[w].gateway
           d == ev[w].device_id
           next == IF ev[w].kind = "heartbeat" THEN "commit" ELSE "link"
       IN  IF UniqueViolation(db, g, d)
              THEN Fail(w, "IntegrityError")
              ELSE Write(w, <<Op("create_device", NextPk, g, d,
                                 TypeOfPayload(ev[w].payload), now,
                                 NoModel, NoPayload),
                              Op("gw_seen", NextPk, g, d, NoType, now,
                                 NoModel, NoPayload)>>, next)
    /\ loc' = Local(w, [loc[w] EXCEPT !.device = NextPk])
    /\ UNCHANGED <<now, ev, started, fanout, apiVars, mqttVars>>

\* The heartbeat of a known device:
\* device.update_online_status(True); device.gateway.update_last_seen()
HeartbeatKnown(w) ==
    /\ pc[w] = "heartbeat"
    /\ Write(w, <<Op("online", loc[w].device, loc[w].gateway,
                     ev[w].device_id, NoType, now, NoModel, NoPayload),
                  Op("gw_seen", loc[w].device, loc[w].gateway,
                     ev[w].device_id, NoType, now, NoModel, NoPayload)>>,
             "commit")
    /\ loc' = Local(w, loc[w])
    /\ UNCHANGED <<now, ev, started, fanout, apiVars, mqttVars>>

\* model_id = payload.get("model_id") or payload.get("model"); the device is
\* linked when it has no model definition and one with that id exists
LinkModel(w) ==
    /\ pc[w] = "link"
    /\ LET m == ev[w].payload.model_id
       IN  IF m # NoModel /\ loc[w].model_definition = NoModel
                /\ m \in db.modelDefs
              THEN /\ Write(w, <<Op("link", loc[w].device, loc[w].gateway,
                                    ev[w].device_id, NoType, now, m,
                                    NoPayload)>>, "telemetry")
                   /\ loc' = Local(w, [loc[w] EXCEPT !.model_definition = m])
              ELSE /\ Write(w, <<>>, "telemetry")
                   /\ loc' = loc
    /\ UNCHANGED <<now, ev, started, fanout, apiVars, mqttVars>>

\* telemetry = Telemetry.objects.create(device=device, payload=payload)
\* device.update_online_status(True)
StoreTelemetry(w) ==
    /\ pc[w] = "telemetry"
    /\ Write(w, <<Op("telemetry", loc[w].device, loc[w].gateway,
                     ev[w].device_id, NoType, now, NoModel, ev[w].payload),
                  Op("online", loc[w].device, loc[w].gateway,
                     ev[w].device_id, NoType, now, NoModel, NoPayload)>>,
             "fanout")
    /\ loc' = Local(w, loc[w])
    /\ UNCHANGED <<now, ev, started, fanout, apiVars, mqttVars>>

\* telemetry: the row the handler has just created in its transaction
Created(w) ==
    LET own == {i \in DOMAIN tx[w] : tx[w][i].op = "telemetry"}
    IN  IF own = {}
           THEN Op("telemetry", loc[w].device, loc[w].gateway,
                   ev[w].device_id, NoType, now, NoModel, ev[w].payload)
           ELSE tx[w][CHOOSE i \in own : TRUE]

FanoutCaught_none == FALSE

\* The broadcast is inside its own try/except Exception
FanoutCaught == TRUE

\* async_to_sync(channel_layer.group_send)("telemetry", ...); a failure is
\* caught and logged
SendFanout(w) ==
    /\ pc[w] = "fanout"
    /\ \E ok \in BOOLEAN :
          IF ok \/ FanoutCaught
             THEN /\ fanout' = IF ok
                                  THEN Append(fanout,
                                           [device_id |-> ev[w].device_id,
                                            gateway_id |-> loc[w].gateway,
                                            timestamp |-> Created(w).t])
                                  ELSE fanout
                  /\ pc' = [pc EXCEPT ![w] = "commit"]
                  /\ UNCHANGED <<db, tx, issued, applied, outcome>>
             ELSE /\ Fail(w, "error")
                  /\ fanout' = fanout
    /\ loc' = Local(w, loc[w])
    /\ UNCHANGED <<now, ev, started, apiVars, mqttVars>>

\* The atomic block exits: the transaction's writes become visible together
Commit(w) ==
    /\ pc[w] = "commit"
    /\ \/ /\ db' = ApplyAll(db, tx[w])
          /\ applied' = [applied EXCEPT ![w] = @ + Len(tx[w])]
          /\ issued' = issued
          /\ tx' = [tx EXCEPT ![w] = <<>>]
          /\ pc' = [pc EXCEPT ![w] = "idle"]
          /\ outcome' = [outcome EXCEPT ![w] = "ok"]
       \/ Fail(w, "error")
    /\ loc' = Local(w, loc[w])
    /\ UNCHANGED <<now, ev, started, fanout, apiVars, mqttVars>>

\* The worker returns to its loop having recorded the message m it was given
Returned(w, kind, topic, form, payload, result) ==
    /\ ev' = [ev EXCEPT ![w] =
                  [kind |-> kind, device_id |-> "none", payload |-> payload,
                   t |-> now + 1, topic |-> topic, form |-> form]]
    /\ outcome' = [outcome EXCEPT ![w] = result]
    /\ issued' = [issued EXCEPT ![w] = 0]
    /\ applied' = [applied EXCEPT ![w] = 0]
    /\ now' = now + 1
    /\ UNCHANGED <<pc, loc, tx, fresh, concurrent, fanout, apiVars, mqttVars>>

\* _handle_gateway_status: refresh last_seen of a known gateway; an unknown
\* gateway is logged
StatusRows_any(rows, gateway_id, t) ==
    IF GatewayById(rows, gateway_id) # {}
       THEN update_last_seen(rows, gateway_id, t)
       ELSE [rows EXCEPT !.gateways = @ \cup {GatewayRow(gateway_id, "userA", "")}]

\* gateway = Gateway.objects.filter(gateway_id=gateway_id).first();
\* if gateway: gateway.update_last_seen()
StatusRows(rows, gateway_id, t) ==
    IF GatewayById(rows, gateway_id) # {}
       THEN update_last_seen(rows, gateway_id, t) ELSE rows

GatewayStatus(w, gateway_id, topic, form, payload) ==
    /\ db' = StatusRows(db, gateway_id, now + 1)
    /\ Returned(w, "status", topic, form, payload, "ok")

\* on_message -> _handle_gateway_message for a gateways/{g}/status message
HandleGatewayStatus(w) ==
    /\ pc[w] = "idle"
    /\ now < MaxEvents
    /\ \E g \in GatewayIds \cup {UnknownGateway} :
          GatewayStatus(w, g, <<"gateways", g, "status">>, "object", NoPayload)

\* The message is logged and nothing else is done
Ignore(w, topic, form, payload) ==
    /\ db' = db
    /\ Returned(w, "ignored", topic, form, payload, "ignored")

startswith_any(topic, prefix) ==
    Len(topic) >= 2 /\ (topic[1] = prefix \/ prefix = "devices")

\* topic.startswith(prefix + "/"), the topic given as its segments
startswith(topic, prefix) == Len(topic) >= 2 /\ topic[1] = prefix

\* len(topic_parts) < 3
TooShort(topic_parts) == Len(topic_parts) < 3

Payload_empty(body) ==
    IF body.form = "object"
       THEN [gateway_id |-> body.gateway_id, type |-> body.type,
             model_id |-> body.model_id, raw |-> FALSE]
       ELSE NoPayload

\* payload_raw = msg.payload.decode("utf-8") if msg.payload else "{}";
\* json.loads(payload_raw), and {"raw": payload_raw} on JSONDecodeError
Payload(body) ==
    IF body.form = "object"
       THEN [gateway_id |-> body.gateway_id, type |-> body.type,
             model_id |-> body.model_id, raw |-> FALSE]
       ELSE IF body.form = "empty" THEN NoPayload
       ELSE [NoPayload EXCEPT !.raw = TRUE]

\* The bodies of messages: a JSON object, no bytes, or text that is no JSON
Bodies(gateways) ==
    [form : {"object"}, gateway_id : gateways, type : {NoType},
     model_id : {NoModel}]
    \cup [form : {"empty", "malformed"}, gateway_id : {NoGateway},
          type : {NoType}, model_id : {NoModel}]

DeviceEvents_config == {"heartbeat", "data", "config"}

\* _handle_device_message: event_type == "heartbeat" / elif "data"; any
\* other event type is logged
DeviceEvents == {"heartbeat", "data"}

\* on_message: route a message by its topic
OnMessage(w, msgs) ==
    /\ pc[w] = "idle"
    /\ now < MaxEvents
    /\ \E m \in msgs :
          LET topic_parts == m.topic
              payload == Payload(m.body)
          IN  IF startswith(m.topic, "debug")
                 THEN Ignore(w, m.topic, m.body.form, NoPayload)
              ELSE IF TooShort(topic_parts)
                 THEN Ignore(w, m.topic, m.body.form, NoPayload)
              ELSE IF startswith(m.topic, "devices")
                 THEN IF topic_parts[3] \in DeviceEvents
                         THEN Dispatch(w, [kind |-> topic_parts[3],
                                           device_id |-> topic_parts[2],
                                           payload |-> payload], m.topic,
                                       m.body.form)
                         ELSE Ignore(w, m.topic, m.body.form, payload)
              ELSE IF startswith(m.topic, "gateways")
                 THEN IF topic_parts[3] = "status"
                         THEN GatewayStatus(w, topic_parts[2], m.topic,
                                            m.body.form, payload)
                         ELSE Ignore(w, m.topic, m.body.form, payload)
              ELSE Ignore(w, m.topic, m.body.form, payload)

Steps(w) ==
    \/ Find(w)
    \/ GetGateway(w)
    \/ CreateDevice(w)
    \/ HeartbeatKnown(w)
    \/ LinkModel(w)
    \/ StoreTelemetry(w)
    \/ SendFanout(w)
    \/ Commit(w)

Handler(w, events) == Receive(w, events) \/ Steps(w)

\* ------------------------------------------------------ the REST operations
Request(op, u, g, d, name, type) ==
    [op |-> op, user |-> u, gateway_id |-> g, device_id |-> d, name |-> name,
     type |-> type]

\* The response of a finished claim request, with the gateway's row(s)
\* before and after it
Respond(req, code, rows) ==
    /\ apiLog' = [req |-> req, status |-> code,
                  before |-> GatewayById(db, req.gateway_id),
                  after |-> GatewayById(rows, req.gateway_id)]
    /\ db' = rows
    /\ api' = NoRequest

\* A finished device request leaves the rows `rows`
Done(rows) ==
    /\ db' = rows
    /\ api' = NoRequest
    /\ apiLog' = apiLog

\* No gateway counts as another user's
OwnedByOther_never(gw, u) == FALSE

\* gw.owner_id != request.user.id
OwnedByOther(gw, u) == gw.owner # u

\* GatewayViewSet.claim on a gateway row that exists (get_or_create returned
\* created = False): conflict for another user's gateway, else rename
ClaimExisting(req) ==
    LET gw == CHOOSE r \in GatewayById(db, req.gateway_id) : TRUE
    IN  IF OwnedByOther(gw, req.user)
           THEN Respond(req, 409, db)
           ELSE IF req.name # "" /\ gw.name # req.name
                   THEN Respond(req, 200,
                            [db EXCEPT !.gateways =
                                (@ \ {gw}) \cup {[gw EXCEPT !.name = req.name]}])
                   ELSE Respond(req, 200, db)

\* GatewayViewSet.claim up to the SELECT of get_or_create
ClaimBegin(users, names) ==
    /\ api.op = "none"
    /\ nApi < MaxClaims
    /\ \E u \in users, g \in GatewayIds \cup {""}, name \in names :
          LET req == Request("claim", u, g, "none", name, NoType)
          IN  IF g = ""
                 THEN Respond(req, 400, db)
                 ELSE IF GatewayById(db, g) = {}
                         THEN /\ api' = req
                              /\ UNCHANGED <<db, apiLog>>
                         ELSE ClaimExisting(req)
    /\ nApi' = nApi + 1
    /\ UNCHANGED <<now, mqttVars, ingestVars, listing, ws>>

\* The INSERT of get_or_create: the unique gateway_id makes the loser of a
\* race fall back to the winner's row
ClaimCreate ==
    /\ api.op = "claim"
    /\ IF GatewayById(db, api.gateway_id) = {}
          THEN Respond(api, 201,
                   [db EXCEPT !.gateways =
                       @ \cup {GatewayRow(api.gateway_id, api.user, api.name)}])
          ELSE ClaimExisting(api)
    /\ UNCHANGED <<now, mqttVars, ingestVars, nApi, listing, ws>>

\* DeviceViewSet.create on a device row that exists: update the type when it
\* differs
DeviceCreateExisting(req) ==
    LET dev == CHOOSE r \in DevicesOfPair(db, req.gateway_id, req.device_id) : TRUE
    IN  IF dev.type # req.type
           THEN Done([db EXCEPT !.devices =
                        (@ \ {dev}) \cup {[dev EXCEPT !.type = req.type]}])
           ELSE Done(db)

\* DeviceViewSet.create up to the SELECT of get_or_create
DeviceCreateBegin(users, gateways, types) ==
    /\ api.op = "none"
    /\ nApi < MaxApiCalls
    /\ \E u \in users, g \in gateways, d \in DeviceIds, type \in types :
          LET req == Request("create", u, g, d, "", type)
          IN  IF type \notin DEVICE_TYPES
                 THEN Done(db)
                 ELSE IF \A gw \in GatewayById(db, g) : gw.owner # u
                         THEN Done(db)
                         ELSE IF DevicesOfPair(db, g, d) = {}
                                 THEN /\ api' = req
                                      /\ UNCHANGED <<db, apiLog>>
                                 ELSE DeviceCreateExisting(req)
    /\ nApi' = nApi + 1
    /\ UNCHANGED <<now, mqttVars, ingestVars, listing, ws>>

\* The INSERT of get_or_create, committed when the atomic block exits
DeviceCreateInsert ==
    /\ api.op = "create"
    /\ ~PendingInsert("api", api.gateway_id, api.device_id)
    /\ IF UniqueViolation(db, api.gateway_id, api.device_id)
          THEN DeviceCreateExisting(api)
          ELSE Done([db EXCEPT !.devices =
                       @ \cup {DeviceRow(NextPk, api.gateway_id, api.device_id,
                                         api.type, FALSE)}])
    /\ UNCHANGED <<now, mqttVars, ingestVars, nApi, listing, ws>>

\* A model definition is registered through the admin site
CreateModelDefinition ==
    /\ api.op = "none"
    /\ nApi < MaxApiCalls
    /\ \E m \in ModelIds \ db.modelDefs :
          db' = [db EXCEPT !.modelDefs = @ \cup {m}]
    /\ nApi' = nApi + 1
    /\ UNCHANGED <<now, mqttVars, ingestVars, api, apiLog, listing, ws>>

\* ------------------------------------------------------------ the bridge
\* MqttBridge._max_connection_attempts
MaxConnectionAttempts == 5

\* The keys the command view stamps on the payload
StampedKeys ==
    {"device_id", "device_type", "gateway_id", "timestamp", "command_id"}

\* The value a caller sends for a stamped key
Spoofed(key) ==
    CASE key = "timestamp" -> 0 - 1
      [] key = "command_id" -> <<"spoofed", 0 - 1>>
      [] OTHER -> "spoofed"

\* {key: value, **payload}: the caller's value wins
Stamped_caller(body, key, value) ==
    IF key \in body.extra THEN Spoofed(key) ELSE value

\* {**payload, key: value}: the later key replaces the caller's
Stamped(body, key, value) == value

\* A message handed to the broker
Message(kind, topic, type, gateway, body, user) ==
    [kind |-> kind, topic |-> topic,
     device_id |-> Stamped(body, "device_id", topic[2]),
     device_type |-> Stamped(body, "device_type", type),
     gateway_id |-> Stamped(body, "gateway_id", gateway), body |-> body,
     timestamp |-> Stamped(body, "timestamp", now),
     command_id |-> Stamped(body, "command_id", <<topic[2], now>>),
     user_id |-> user]

\* result.rc of client.publish: the message goes out on a live socket only
client_publish(b, up) ==
    IF up /\ ~b.lost THEN "MQTT_ERR_SUCCESS" ELSE "MQTT_ERR_NO_CONN"

\* MqttBridge.publish without its test of _connected
publish_unguarded(b, up) == client_publish(b, up) = "MQTT_ERR_SUCCESS"

\* MqttBridge.publish: nothing is sent unless _connected is set, and the
\* return value is True only if the client reports success
publish(b, up) == b.connected /\ client_publish(b, up) = "MQTT_ERR_SUCCESS"

\* The messages at the broker after bridge.publish(m)
Published(b, up, msgs, m) == IF publish(b, up) THEN Append(msgs, m) ELSE msgs

\* The threads that call start_bridge_if_enabled: the one that serves the
\* HTTP request and the one that imports core/asgi.py
Threads == {"request", "asgi"}

Th(t) == IF t = "request" THEN http ELSE asgi

SetTh(t, r) ==
    IF t = "request" THEN http' = r /\ asgi' = asgi
                     ELSE asgi' = r /\ http' = http

\* wait_time = 5 * N

\* wait_time = 30 - 5 * N
wait_time_shrinking(attempts) == 30 - 5 * attempts

\* wait_time = min(5 * self._connection_attempts, 30)
wait_time(attempts) == IF 5 * attempts < 30 THEN 5 * attempts ELSE 30

\* The locals of start() when it is entered or left
Locals(r) == [r EXCEPT !.tries = 0, !.wait_time = 0, !.failed = 0]

\* start() sleeps wait_time before the next attempt, if there is one
Wait(r, attempts) ==
    IF attempts < MaxConnectionAttempts
       THEN [r EXCEPT !.wait_time = wait_time(attempts), !.failed = attempts]
       ELSE r

\* start_bridge_if_enabled up to its test `if bridge is None`, called by
\* thread t, which continues at `ret` when the call returns: without a bridge
\* object one is made, an existing one that is not connected runs start()
StartBridgeIfEnabled(t, req, ret) ==
    SetTh(t, IF ~enabled THEN [req EXCEPT !.pc = ret]
             ELSE IF ~bridge.exists
                THEN [req EXCEPT !.pc = "create", !.ret = ret]
             ELSE IF ~bridge.connected
                THEN [Locals(req) EXCEPT !.pc = "start", !.ret = ret]
             ELSE [req EXCEPT !.pc = ret])

\* bridge = MqttBridge(): a new object with a client of its own becomes the
\* module global
CreateBridge(t) ==
    /\ Th(t).pc = "create"
    /\ bridge' = [NoBridge EXCEPT !.exists = TRUE]
    /\ clients' = clients + 1
    /\ former' = former
    /\ SetTh(t, [Locals(Th(t)) EXCEPT !.pc = "start"])
    /\ UNCHANGED <<now, db, ingestVars, apiVars, enabled, brokerUp, drops,
                   delivered>>

\* MqttBridge.start, one turn of its loop: client.connect raises when the
\* broker is away, else the network loop is started and start() sleeps;
\* once the attempts are used up start() clears _connected and returns
StartAttempt(t) ==
    /\ Th(t).pc = "start"
    /\ IF bridge.attempts < MaxConnectionAttempts
          THEN /\ bridge' = [bridge EXCEPT !.attempts = @ + 1,
                                           !.pending = @ \/ brokerUp,
                                           !.loop = @ \/ brokerUp]
               /\ SetTh(t, IF brokerUp
                              THEN [Th(t) EXCEPT !.pc = "sleep",
                                                 !.tries = @ + 1]
                              ELSE [Wait(Th(t), bridge.attempts + 1)
                                      EXCEPT !.tries = @ + 1])
          ELSE /\ bridge' = [bridge EXCEPT !.connected = FALSE]
               /\ SetTh(t, [Locals(Th(t)) EXCEPT !.pc = Th(t).ret])
    /\ UNCHANGED <<now, db, ingestVars, apiVars, enabled, brokerUp, drops,
                   delivered, clients,
                   former>>

\* MqttBridge.start after time.sleep(2): return if on_connect has run, else
\* wait and go round the loop
StartCheck(t) ==
    /\ Th(t).pc = "sleep"
    /\ SetTh(t, IF bridge.connected
                   THEN [Locals(Th(t)) EXCEPT !.pc = Th(t).ret]
                   ELSE [Wait(Th(t), bridge.attempts) EXCEPT !.pc = "start"])
    /\ UNCHANGED <<now, db, ingestVars, apiVars, enabled, brokerUp, drops,
                   bridge, delivered, clients,
                   former>>

\* MqttBridge.on_connect on the network thread: reason code 0 marks the
\* bridge connected, resets the attempts and announces the bridge; with
\* another reason code the broker has turned the client away and closes
\* the connection
OnConnect ==
    /\ bridge.exists /\ bridge.pending /\ brokerUp
    /\ \E reason_code \in {0, 5} :
          IF reason_code = 0
             THEN LET b == [bridge EXCEPT !.connected = TRUE,
                                          !.attempts = 0, !.pending = FALSE,
                                          !.lost = FALSE]
                  IN  /\ bridge' = b
                      /\ delivered' =
                            Published(b, brokerUp, delivered,
                                Message("announce",
                                        <<"system", "bridge", "status">>,
                                        NoType, NoGateway, NoBody, "none"))
                      /\ drops' = drops
             ELSE /\ drops < MaxDrops
                  /\ drops' = drops + 1
                  /\ bridge' = [bridge EXCEPT !.connected = FALSE,
                                              !.pending = FALSE,
                                              !.lost = TRUE]
                  /\ delivered' = delivered
    /\ UNCHANGED <<now, db, ingestVars, apiVars, enabled, brokerUp, http,
                   asgi, clients,
                   former>>

\* MqttBridge.on_disconnect with a non-zero reason code, called by the
\* network thread when the connection has been closed from the other side
OnDisconnect ==
    /\ bridge.exists /\ bridge.lost
    /\ bridge' = [bridge EXCEPT !.connected = FALSE, !.attempts = 0,
                                !.lost = FALSE]
    /\ UNCHANGED <<now, db, ingestVars, apiVars, enabled, brokerUp, drops,
                   delivered, http, asgi, clients,
                   former>>

\* The broker goes away; the connection of the client is lost with it
BrokerDown ==
    /\ brokerUp
    /\ drops < MaxDrops
    /\ brokerUp' = FALSE
    /\ drops' = drops + 1
    /\ bridge' = [bridge EXCEPT !.pending = FALSE,
                                !.lost = @ \/ bridge.pending
                                           \/ bridge.connected]
    /\ former' = [former EXCEPT !.loop = IF @ \in {"pending", "subscribed"}
                                            THEN "running" ELSE @]
    /\ UNCHANGED <<now, db, ingestVars, apiVars, enabled, delivered, http,
                   asgi, clients>>

\* The broker comes back
BrokerUp ==
    /\ ~brokerUp
    /\ brokerUp' = TRUE
    /\ UNCHANGED <<now, db, ingestVars, apiVars, enabled, drops, bridge,
                   delivered, http, asgi, clients,
                   former>>

\* The network loop of bridge object b once MqttBridge.stop has run on it:
\* loop_stop() and disconnect() are called only `if self._connected`
Stopped(b) ==
    IF b.connected THEN "stopped"
    ELSE IF ~b.loop THEN "none"
    ELSE IF b.pending THEN "pending"
    ELSE "running"

\* stop_bridge(), called while no thread is inside MqttBridge() or start():
\* bridge.stop(), then bridge = None; without a bridge it only logs
StopBridge ==
    /\ http.pc \notin {"create", "start", "sleep"}
    /\ asgi.pc \notin {"create", "start", "sleep"}
    /\ former.stops < MaxStops
    /\ former' = [stops |-> former.stops + 1,
                  loop |-> IF bridge.exists
                              /\ former.loop \in {"none", "stopped"}
                              THEN Stopped(bridge) ELSE former.loop]
    /\ bridge' = NoBridge
    /\ UNCHANGED <<now, db, ingestVars, apiVars, enabled, brokerUp, drops,
                   delivered, http, asgi, clients>>

\* on_connect of the bridge object that stop_bridge let go, called by its
\* network thread when the broker accepts the connection it had begun: the
\* object marks itself connected, subscribes and announces itself
FormerOnConnect ==
    /\ former.loop = "pending" /\ brokerUp
    /\ former' = [former EXCEPT !.loop = "subscribed"]
    /\ delivered' =
          Published(ConnectedBridge, brokerUp, delivered,
                    Message("announce", <<"system", "bridge", "status">>,
                            NoType, NoGateway, NoBody, "none"))
    /\ UNCHANGED <<now, db, ingestVars, apiVars, enabled, brokerUp, drops,
                   bridge, http, asgi, clients>>

\* core/asgi.py is imported: start_bridge_if_enabled()
AsgiImport ==
    /\ asgi.pc = "none"
    /\ StartBridgeIfEnabled("asgi", asgi, "done")
    /\ UNCHANGED <<now, db, ingestVars, apiVars, enabled, brokerUp, drops,
                   bridge, delivered, clients,
                   former>>

\* ------------------------------------------------ command and discover
\* The values a JSON request body can carry
Str(s) == [k |-> "str", s |-> s, n |-> 0]
Number(n) == [k |-> "int", s |-> "", n |-> n]
Bool(b) == [k |-> "bool", s |-> "", n |-> IF b THEN 1 ELSE 0]
None == [k |-> "none", s |-> "", n |-> 0]

\* Python's ==: True == 1 and False == 0, a str equals only the same str
PyEq(a, b) ==
    \/ a.k \in {"int", "bool"} /\ b.k \in {"int", "bool"} /\ a.n = b.n
    \/ a.k = "str" /\ b.k = "str" /\ a.s = b.s
    \/ a.k = "none" /\ b.k = "none"

\* Python's `x in [..]`
PyIn(x, list) == \E i \in 1..Len(list) : PyEq(x, list[i])

\* float(x): the number of an int or a bool, the number a numeral text
\* denotes; other text raises ValueError and None raises TypeError
float(x) ==
    CASE x.k \in {"int", "bool"} -> [raised |-> "", n |-> x.n]
      [] x.k = "str" /\ x.s = "50" -> [raised |-> "", n |-> 50]
      [] x.k = "str" /\ x.s = "101" -> [raised |-> "", n |-> 101]
      [] x.k = "str" -> [raised |-> "ValueError", n |-> 0]
      [] OTHER -> [raised |-> "TypeError", n |-> 0]

\* payload.get(key, default)
Get(v, default) == IF v.k = "absent" THEN default ELSE v

\* 0 <= brightness < 100
InRange_open(brightness) == 0 <= brightness /\ brightness < 100

\* 0 <= brightness <= 100
InRange(brightness) == 0 <= brightness /\ brightness <= 100

\* Device.can_receive_commands, for every type
can_receive_commands_any(type) == TRUE

\* Device.can_receive_commands
can_receive_commands(type) ==
    type \in {DEVICE_TYPE_ACTUATOR, DEVICE_TYPE_CAMERA, DEVICE_TYPE_RELAY,
              DEVICE_TYPE_DIMMER, DEVICE_TYPE_SWITCH}

valid_camera_commands_reboot ==
    <<Str("start_recording"), Str("stop_recording"), Str("take_snapshot"),
      Str("set_quality"), Str("reboot")>>

\* valid_camera_commands of _validate_command
valid_camera_commands ==
    <<Str("start_recording"), Str("stop_recording"), Str("take_snapshot"),
      Str("set_quality")>>

\* DeviceViewSet._validate_command: the error, or "" for None
validate_command(type, command_type, payload) ==
    IF type \in {DEVICE_TYPE_RELAY, DEVICE_TYPE_SWITCH}
       /\ PyEq(command_type, Str("toggle"))
    THEN IF payload.state.k = "absent"
            THEN "State required for toggle command"
         ELSE IF ~PyIn(payload.state,
                       <<Bool(TRUE), Bool(FALSE), Str("on"), Str("off"),
                         Number(1), Number(0)>>)
            THEN "State must be boolean or 'on'/'off'"
         ELSE ""
    ELSE IF type \in {DEVICE_TYPE_DIMMER, "light"}
            /\ PyEq(command_type, Str("set_brightness"))
    THEN LET brightness == float(Get(payload.brightness, Number(-1)))
         IN  IF brightness.raised # ""
                THEN "Brightness must be a number"
             ELSE IF ~InRange(brightness.n)
                THEN "Brightness must be between 0-100"
             ELSE ""
    ELSE IF type = DEVICE_TYPE_CAMERA
    THEN IF ~PyIn(command_type, valid_camera_commands)
            THEN "Invalid camera command"
         ELSE IF PyEq(command_type, Str("set_quality"))
                 /\ ~PyIn(Get(payload.quality, Str("")),
                          <<Str("low"), Str("medium"), Str("high")>>)
            THEN "Quality must be 'low', 'medium', or 'high'"
         ELSE ""
    ELSE ""

Body(action, state, brightness, quality) ==
    [action |-> action, state |-> state, brightness |-> brightness,
     quality |-> quality, extra |-> {}]

\* The request bodies sent: every action with the parameter it is about
StateValues ==
    {Absent, None, Str("on"), Str("maybe"), Bool(TRUE), Number(0), Number(2)}
BrightnessValues ==
    {Absent, None, Number(100), Number(101), Number(-1), Number(0),
     Str("50"), Str("101"), Str("abc"), Bool(TRUE)}
QualityValues == {Absent, Str("low"), Str("ultra")}
CommandBodies ==
    {Body(a, s, Absent, Absent) :
        a \in {Str("toggle"), Str("reboot")}, s \in StateValues}
    \cup {NoBody}
    \cup {Body(a, Absent, b, Absent) :
            a \in {Str("set_brightness"), Str("fade")},
            b \in BrightnessValues}
    \cup {Body(a, Absent, Absent, q) :
            a \in {Str("set_quality"), Str("take_snapshot")},
            q \in QualityValues}

\* self.get_object(): the rows of the viewset's queryset with this pk
OwnDevices(rows, u, pk) ==
    {r \in rows.devices :
        r.id = pk /\ \E g \in GatewayById(rows, r.gateway) : g.owner = u}
OwnGateways(rows, u, g) == {r \in GatewayById(rows, g) : r.owner = u}

\* An HTTP request arrives; the request_started signal calls
\* start_bridge_if_enabled before the view runs
HttpRequest(ops, users, bodies, budget) ==
    /\ http.pc \in {"none", "done"}
    /\ api.op = "none"
    /\ nApi < budget
    /\ nApi' = nApi + 1
    /\ \E op \in ops, u \in users, body \in bodies :
          \E target \in IF op = "command"
                           THEN {r.id : r \in db.devices}
                           ELSE GatewayIds :
             /\ op = "discover" => body = NoBody
             /\ StartBridgeIfEnabled("request",
                    [NoHttp EXCEPT !.op = op, !.user = u, !.target = target,
                                   !.body = body], "view")
    /\ UNCHANGED <<now, db, ingestVars, api, apiLog, listing, ws, enabled,
                   brokerUp, drops, bridge, delivered, clients,
                   former>>

HttpBegin(ops, users, bodies) ==
    HttpRequest(ops, users, bodies, MaxApiCalls)

\* timezone.now() moves on by a second
Tick ==
    /\ now < MaxEvents
    /\ now' = now + 1
    /\ UNCHANGED <<db, ingestVars, apiVars, mqttVars>>

\* The response of the view
Reply(code) ==
    /\ http' = [http EXCEPT !.pc = "done", !.status = code]
    /\ asgi' = asgi

\* DeviceViewSet.command up to the call of _send_mqtt_command, and
\* _send_mqtt_command up to its test of the bridge
CommandView ==
    /\ http.pc = "view" /\ http.op = "command"
    /\ LET found == OwnDevices(db, http.user, http.target)
       IN  IF found = {}
              THEN Reply(404)
           ELSE \E device \in found :
                  IF ~can_receive_commands(device.type)
                     THEN Reply(400)
                  ELSE IF validate_command(device.type,
                              Get(http.body.action, Str("unknown")),
                              http.body) # ""
                     THEN Reply(400)
                  ELSE IF ~bridge.exists
                     THEN StartBridgeIfEnabled("request",
                              [http EXCEPT !.down = TRUE, !.reinit = @ + 1],
                              "send")
                  ELSE /\ http' = [http EXCEPT !.pc = "send",
                                               !.down = ~bridge.connected]
                       /\ asgi' = asgi
    /\ UNCHANGED <<now, db, ingestVars, apiVars, enabled, brokerUp, drops,
                   bridge, delivered, clients,
                   former>>

\* GatewayViewSet.discover up to its test of the bridge
DiscoverView ==
    /\ http.pc = "view" /\ http.op = "discover"
    /\ IF OwnGateways(db, http.user, http.target) = {}
          THEN Reply(404)
       ELSE IF ~bridge.exists
          THEN StartBridgeIfEnabled("request", http, "send")
       ELSE /\ http' = [http EXCEPT !.pc = "send"]
            /\ asgi' = asgi
    /\ UNCHANGED <<now, db, ingestVars, apiVars, enabled, brokerUp, drops,
                   bridge, delivered, clients,
                   former>>

\* The message of the request: the enhanced payload of a command, or the
\* discovery request
RequestMessage ==
    IF http.op = "command"
       THEN LET device == CHOOSE r \in db.devices : r.id = http.target
            IN  Message("command", <<"devices", device.device_id, "commands">>,
                        device.type, device.gateway, http.body, http.user)
       ELSE Message("discover", <<"gateways", http.target, "discover">>,
                    NoType, http.target, NoBody, http.user)

\* `if mqtt_worker.bridge:` in _send_mqtt_command and in discover: with a
\* bridge object the message is published and the answer is "sent",
\* whatever publish returns; without one it is 503
Send ==
    /\ http.pc = "send"
    /\ IF bridge.exists
          THEN /\ delivered' =
                     Published(bridge, brokerUp, delivered, RequestMessage)
               /\ http' = [http EXCEPT !.pc = "done", !.status = 200,
                                       !.handed = publish(bridge, brokerUp)]
          ELSE /\ delivered' = delivered
               /\ http' = [http EXCEPT !.pc = "done", !.status = 503]
    /\ UNCHANGED <<now, db, ingestVars, apiVars, enabled, brokerUp, drops,
                   bridge, asgi, clients,
                   former>>

\* ------------------------------------------------ the telemetry listing
\* PAGE_SIZE of the default PageNumberPagination
PAGE_SIZE == 50

\* The text of a query parameter that is the ISO datetime of time t
Iso(t) == [k |-> "iso", s |-> "", n |-> t]

\* parse_datetime(value) gives a datetime: for other text it returns None or
\* raises ValueError, which is caught, and the filter is not applied
IsDatetime(v) == v.k = "iso"

\* int(value) succeeds on the text of a query parameter
IsInt(v) == v.k = "int"

\* Telemetry.objects.filter(device__gateway__owner=self.request.user)
OwnTelemetry(rows, u) ==
    {i \in 1..Len(rows.telemetry) :
        \E d \in rows.devices :
            /\ d.id = rows.telemetry[i].device
            /\ \E g \in rows.gateways :
                  g.gateway_id = d.gateway /\ g.owner = u}

\* The filters of get_queryset, by the primary keys of the selected rows:
\* device (none() if it is not a number), device_type,
\* timestamp__gte=since_datetime and timestamp__lte=until_datetime
Selected(rows, q) ==
    {i \in OwnTelemetry(rows, q.user) :
        LET row == rows.telemetry[i]
        IN  /\ q.device.k # "absent"
                  => IsInt(q.device) /\ row.device = q.device.n
            /\ q.device_type.k # "absent"
                  => \E d \in rows.devices :
                        d.id = row.device /\ d.type = q.device_type.s
            /\ IsDatetime(q.since) => row.timestamp >= q.since.n
            /\ IsDatetime(q.until) => row.timestamp <= q.until.n}

\* order_by('-timestamp'): every order of the rows `pks` in which no row
\* comes before a newer one; the database chooses among rows of one time
NewestFirst(rows, pks) ==
    {s \in [1..Cardinality(pks) -> pks] :
        /\ \A i, j \in 1..Cardinality(pks) : i # j => s[i] # s[j]
        /\ \A i, j \in 1..Cardinality(pks) :
              i < j => rows.telemetry[s[i]].timestamp
                          >= rows.telemetry[s[j]].timestamp}

\* limit_num = int(limit); if limit_num > 0: queryset = queryset[:limit_num]
Sliced(q) == IsInt(q.limit) /\ q.limit.n > 0

\* seq[:n]
Take(seq, n) == SubSeq(seq, 1, IF n < Len(seq) THEN n ELSE Len(seq))

\* get_queryset: the querysets it can return for request q, each as the rows
\* it yields and whether a slice has been taken
get_queryset(rows, q) ==
    {[rows |-> IF Sliced(q) THEN Take(s, q.limit.n) ELSE s,
      is_sliced |-> Sliced(q)] : s \in NewestFirst(rows, Selected(rows, q))}

\* ListModelMixin.list: filter_queryset applies the default OrderingFilter,
\* whose queryset.order_by(*view.ordering) raises once a slice has been
\* taken (the request ends in 500); otherwise the first page is returned
List(q, queryset) ==
    IF queryset.is_sliced
       THEN [q EXCEPT !.status = 500, !.results = <<>>]
       ELSE [q EXCEPT !.status = 200,
                      !.results = Take(queryset.rows, PAGE_SIZE)]

\* GET /api/telemetry/ with the query parameters of q
TelemetryList(users, devices, types, times, limits) ==
    /\ nApi < MaxApiCalls
    /\ nApi' = nApi + 1
    /\ \E u \in users, device \in devices, type \in types,
          since \in times, until \in times, limit \in limits :
          LET q == [NoListing EXCEPT !.user = u, !.device = device,
                                     !.device_type = type, !.since = since,
                                     !.until = until, !.limit = limit]
          IN  \E queryset \in get_queryset(db, q) :
                 listing' = List(q, queryset)
    /\ UNCHANGED <<now, db, ingestVars, api, apiLog, ws, mqttVars>>

\* ------------------------------------------------ the WebSocket endpoint
\* The token of the query string: none, the valid access token of a user, or
\* text that get_validated_token rejects (garbage, expired)
Tokens == {"none", "expired"} \cup Users

is_authenticated_any(user) == TRUE

\* user.is_authenticated
is_authenticated(user) == user # AnonymousUser

\* get_user_from_token: the user of a valid token, AnonymousUser on any
\* exception
get_user_from_token(token) ==
    IF token \in Users THEN token ELSE AnonymousUser

\* JWTAuthMiddleware, then AuthMiddlewareStack: a token sets scope["user"],
\* which the session middleware then leaves alone; without a token the user
\* is the one of the session
ScopeUser(token, session) ==
    IF token # "none" THEN get_user_from_token(token) ELSE session

\* A client opens ws/telemetry/: the middlewares fill the scope
WsOpenWith(c, tokens, sessions) ==
    /\ ws.conn[c].pc = "none"
    /\ \E token \in tokens, session \in sessions :
          ws' = [ws EXCEPT !.conn[c] =
                    [NoSocket EXCEPT !.pc = "connect", !.token = token,
                                     !.session = session,
                                     !.user = ScopeUser(token, session)]]
    /\ UNCHANGED <<now, db, ingestVars, api, apiLog, nApi, listing, mqttVars>>

WsOpen(c) == WsOpenWith(c, Tokens, Users \cup {AnonymousUser})

\* TelemetryConsumer.connect: group_add for an authenticated user, close()
\* for any other
WsConnect(c) ==
    /\ ws.conn[c].pc = "connect"
    /\ ws' = IF is_authenticated(ws.conn[c].user)
                THEN [ws EXCEPT !.group = @ \cup {c},
                                !.conn[c].pc = "accept",
                                !.conn[c].seen = Len(fanout)]
                ELSE [ws EXCEPT !.conn[c].pc = "closed"]
    /\ UNCHANGED <<now, db, ingestVars, api, apiLog, nApi, listing, mqttVars>>

\* TelemetryConsumer.connect: await self.accept() after the group_add
WsAccept(c) ==
    /\ ws.conn[c].pc = "accept"
    /\ ws' = [ws EXCEPT !.conn[c].pc = "open"]
    /\ UNCHANGED <<now, db, ingestVars, api, apiLog, nApi, listing, mqttVars>>

\* TelemetryConsumer.telemetry_event: the channel layer hands a member of the
\* group the next event sent to "telemetry" since its group_add, and the
\* consumer sends the event's data to its client
telemetry_event(c) ==
    /\ c \in ws.group
    /\ ws.conn[c].pc = "open"
    /\ ws.conn[c].seen < Len(fanout)
    /\ ws' = [ws EXCEPT !.conn[c].seen = @ + 1,
                        !.conn[c].inbox =
                            @ \cup {[device_id |-> fanout[ws.conn[c].seen + 1].device_id,
                                     gateway_id |-> fanout[ws.conn[c].seen + 1].gateway_id]}]
    /\ UNCHANGED <<now, db, ingestVars, api, apiLog, nApi, listing, mqttVars>>

\* ---------------------------------------------------- the specifications
\* Heartbeat and data messages of gateway gw1's devices, handled by two
\* bridge workers while the REST API creates devices
RaceEvents == Events({"heartbeat", "data"}, {"gw1"}, {NoType}, {NoModel})
RaceTypes == {DEVICE_TYPE_RELAY, "thermostat"}

Next ==
    \/ \E w \in Workers : Handler(w, RaceEvents)
    \/ DeviceCreateBegin({"userA"}, GatewayIds, RaceTypes)
    \/ DeviceCreateInsert

Spec == Init /\ [][Next]_vars

\* The same messages while the REST API creates devices under the other
\* gateway, gw2, only
NextCross ==
    \/ \E w \in Workers : Handler(w, RaceEvents)
    \/ DeviceCreateBegin(Users, {"gw2"}, RaceTypes)
    \/ DeviceCreateInsert

SpecCross == Init /\ [][NextCross]_vars

\* Heartbeat and data messages whose payload carries no type, a type of
\* Device.DEVICE_TYPES or other text, while the REST API creates devices
TypedEvents ==
    Events({"heartbeat", "data"}, {"gw1"},
           {NoType, DEVICE_TYPE_RELAY, "thermostat"}, {NoModel})

NextTypes ==
    \/ \E w \in Workers : Handler(w, TypedEvents)
    \/ DeviceCreateBegin({"userA"}, {"gw1"}, RaceTypes)
    \/ DeviceCreateInsert

SpecTypes == Init /\ [][NextTypes]_vars

\* Data messages that declare one of two registered models, an unregistered
\* one or none, while the device is created through the REST API
LinkModels == {"m1", "m2"}
LinkEvents ==
    Events({"heartbeat", "data"}, {"gw1"}, {NoType},
           LinkModels \cup {NoModel, "m9"})

InitLink ==
    /\ db = [gateways |-> ClaimedGateways, devices |-> {},
             telemetry |-> <<>>, modelDefs |-> LinkModels]
    /\ InitRest

NextLink ==
    \/ \E w \in Workers : Handler(w, LinkEvents)
    \/ DeviceCreateBegin({"userA"}, {"gw1"}, {DEVICE_TYPE_SENSOR})
    \/ DeviceCreateInsert

SpecLink == InitLink /\ [][NextLink]_vars

\* Heartbeat and data messages that may declare a model, gateway status
\* messages, and the registration of the model definition
DataEvents == Events({"heartbeat", "data"}, {"gw1"}, {NoType}, {NoModel, "m1"})

NextData ==
    \/ \E w \in Workers : Handler(w, DataEvents)
    \/ \E w \in Workers : HandleGatewayStatus(w)
    \/ CreateModelDefinition

SpecData == Init /\ [][NextData]_vars

\* A database with the claimed gateways and one device of userA; no bridge
\* object has been made yet
\* The topics of the messages the router is given: the subscribed ones, and
\* others handed to on_message directly
RouterTopics ==
    {<<"devices", "dev1", "data">>, <<"devices", "dev1", "heartbeat">>,
     <<"devices", "dev1", "config">>, <<"devices", "dev1">>,
     <<"sensors", "dev1", "data">>, <<"debug", "test">>,
     <<"gateways", "gw1", "status">>, <<"gateways", UnknownGateway, "status">>,
     <<"gateways", "gw1", "config">>}

RouterMessages ==
    [topic : RouterTopics, body : Bodies({"gw1", UnknownGateway})]

NextRouter ==
    \/ \E w \in Workers : OnMessage(w, RouterMessages)
    \/ \E w \in Workers : Steps(w)

SpecRouter == Init /\ [][NextRouter]_vars

\* Telemetry rows in the order of their insertion; timestamp is auto_now_add,
\* so it does not decrease along the table
TelemetryTables ==
    UNION {{t \in [1..n -> [device : {1, 2}, timestamp : 1..MaxStamp,
                            payload : {NoPayload}]] :
               \A i \in 1..(n - 1) : t[i].timestamp <= t[i + 1].timestamp} :
           n \in 0..MaxRows}

\* Each user has one gateway with one device, with telemetry stored
InitQuery ==
    /\ \E table \in TelemetryTables :
          db = [gateways |-> ClaimedGateways,
                devices |-> {DeviceRow(1, "gw1", "dev1", DEVICE_TYPE_SENSOR,
                                       TRUE),
                             DeviceRow(2, "gw2", "dev1", DEVICE_TYPE_RELAY,
                                       TRUE)},
                telemetry |-> table, modelDefs |-> {}]
    /\ InitRest

QueryTimes == {Absent, Str("yesterday")} \cup {Iso(t) : t \in 1..MaxStamp}
QueryLimits == {Absent, Str("all")} \cup {Number(n) : n \in 0..MaxRows}
QueryDevices == {Absent, Number(1), Str("dev1")}
QueryTypes == {Absent, Str(DEVICE_TYPE_SENSOR)}

NextQuery ==
    TelemetryList(Users, QueryDevices, QueryTypes, QueryTimes, QueryLimits)

SpecQuery == InitQuery /\ [][NextQuery]_vars

NextWs ==
    \/ \E c \in Connections : WsOpen(c)
    \/ \E c \in Connections : WsConnect(c)
    \/ \E c \in Connections : WsAccept(c)

SpecWs == Init /\ [][NextWs]_vars

\* Heartbeat and data messages of the devices of gateway gw1, which userA
\* owns, while clients holding the token of userA or of userB are connected
\* to ws/telemetry/
FeedEvents == Events({"heartbeat", "data"}, {"gw1"}, {NoType}, {NoModel})

NextFeed ==
    \/ \E w \in Workers : Handler(w, FeedEvents)
    \/ \E c \in Connections : WsOpenWith(c, Users, {AnonymousUser})
    \/ \E c \in Connections : WsConnect(c)
    \/ \E c \in Connections : WsAccept(c)
    \/ \E c \in Connections : telemetry_event(c)

SpecFeed == Init /\ [][NextFeed]_vars

InitHttp(types, enabling) ==
    /\ \E type \in types :
          db = [gateways |-> ClaimedGateways,
                devices |-> {DeviceRow(1, "gw1", "dev1", type, FALSE)},
                telemetry |-> <<>>, modelDefs |-> {}]
    /\ InitIdle
    /\ enabled \in enabling
    /\ brokerUp \in BOOLEAN
    /\ bridge = NoBridge
    /\ clients = 0
    /\ former = NoFormer

\* Command requests with every body against a device of any type, the
\* broker being there all the time or never
CommandTypes == DEVICE_TYPES \cup {"light"}

\* Commands to one relay, one after the other, while the clock runs
NextIds ==
    \/ HttpRequest({"command"}, {"userA"},
                   {Body(Str("toggle"), Str("on"), Absent, Absent)},
                   MaxCommands)
    \/ CreateBridge("request")
    \/ StartAttempt("request")
    \/ StartCheck("request")
    \/ OnConnect
    \/ CommandView
    \/ Send
    \/ Tick

InitIds == InitHttp({DEVICE_TYPE_RELAY}, {TRUE})

SpecIds == InitIds /\ [][NextIds]_vars

InitCmd == InitHttp(CommandTypes, {TRUE})

NextCmd ==
    \/ HttpBegin({"command"}, {"userA"}, CommandBodies)
    \/ CreateBridge("request")
    \/ StartAttempt("request")
    \/ StartCheck("request")
    \/ OnConnect
    \/ CommandView
    \/ Send

SpecCmd == InitCmd /\ [][NextCmd]_vars

\* Command requests against a camera: the camera's actions and others, each
\* with every quality
CameraBodies ==
    {Body(a, Absent, Absent, q) :
        a \in {Str("start_recording"), Str("stop_recording"),
               Str("take_snapshot"), Str("set_quality"), Str("reboot"),
               Str("toggle"), None},
        q \in QualityValues \cup {Str("medium"), Str("high"), Number(1),
                                  None}}
    \cup {NoBody}

InitCamera == InitHttp({DEVICE_TYPE_CAMERA}, {TRUE})

NextCamera ==
    \/ HttpBegin({"command"}, {"userA"}, CameraBodies)
    \/ CreateBridge("request")
    \/ StartAttempt("request")
    \/ StartCheck("request")
    \/ OnConnect
    \/ CommandView
    \/ Send

SpecCamera == InitCamera /\ [][NextCamera]_vars

\* Command and discover requests while the broker comes and goes, with the
\* worker enabled or disabled in the settings
TransportBodies ==
    {NoBody, Body(Str("toggle"), Str("on"), Absent, Absent),
     [Body(Str("toggle"), Str("on"), Absent, Absent)
         EXCEPT !.extra = StampedKeys]}

InitTransport == InitHttp({DEVICE_TYPE_RELAY}, BOOLEAN)

NextTransport ==
    \/ HttpBegin({"command", "discover"}, Users, TransportBodies)
    \/ CreateBridge("request")
    \/ StartAttempt("request")
    \/ StartCheck("request")
    \/ OnConnect
    \/ OnDisconnect
    \/ BrokerDown
    \/ BrokerUp
    \/ CommandView
    \/ DiscoverView
    \/ Send

SpecTransport == InitTransport /\ [][NextTransport]_vars

\* The same, with every thread (the request's, the client's network thread)
\* and the broker taking the steps open to them
SpecReconnect == SpecTransport /\ WF_vars(NextTransport)

\* A discover request and calls of stop_bridge while the broker comes and
\* goes
NextStop ==
    \/ HttpBegin({"discover"}, {"userA"}, {NoBody})
    \/ CreateBridge("request")
    \/ StartAttempt("request")
    \/ StartCheck("request")
    \/ OnConnect
    \/ OnDisconnect
    \/ BrokerDown
    \/ BrokerUp
    \/ DiscoverView
    \/ Send
    \/ StopBridge
    \/ FormerOnConnect

SpecStop == InitIds /\ [][NextStop]_vars

\* Discover requests one after the other while the broker comes and goes
NextRetry ==
    \/ HttpRequest({"discover"}, {"userA"}, {NoBody}, MaxCommands)
    \/ CreateBridge("request")
    \/ StartAttempt("request")
    \/ StartCheck("request")
    \/ OnConnect
    \/ OnDisconnect
    \/ BrokerDown
    \/ BrokerUp
    \/ DiscoverView
    \/ Send

SpecRetry == InitIds /\ [][NextRetry]_vars

\* A discover request while core/asgi.py is being imported: two threads
\* call start_bridge_if_enabled, the broker being there all the time or never
InitStart == InitHttp({DEVICE_TYPE_RELAY}, {TRUE})

NextStart ==
    \/ AsgiImport
    \/ HttpBegin({"discover"}, {"userA"}, {NoBody})
    \/ \E t \in Threads : CreateBridge(t)
    \/ \E t \in Threads : StartAttempt(t)
    \/ \E t \in Threads : StartCheck(t)
    \/ OnConnect
    \/ DiscoverView
    \/ Send

SpecStart == InitStart /\ [][NextStart]_vars

\* Claim requests of two users, starting from the empty database
NextClaim ==
    \/ ClaimBegin(Users, Names)
    \/ ClaimCreate

SpecClaim == InitEmpty /\ [][NextClaim]_vars

\* ------------------------------------------------------------- properties
\* Both workers have finished their latest event, neither hit by a database
\* outage
BothFinished ==
    \A w \in Workers :
        pc[w] = "idle" /\ outcome[w] \in {"ok", "IntegrityError", "dropped"}

\* C1: two heartbeats for the same device_id, carrying the id of the same
\* existing gateway and processed concurrently while the pair has no Device
\* row, leave exactly one Device row for the pair, and that row is online
C1_ConcurrentHeartbeatsOneOnlineRow ==
    \A w1, w2 \in Workers :
        (/\ w1 # w2
         /\ BothFinished
         /\ concurrent
         /\ fresh[w1] /\ fresh[w2]
         /\ ev[w1].kind = "heartbeat" /\ ev[w2].kind = "heartbeat"
         /\ ev[w1].device_id = ev[w2].device_id
         /\ ev[w1].payload.gateway_id = ev[w2].payload.gateway_id)
        => LET rows == DevicesOfPair(db, ev[w1].payload.gateway_id,
                                     ev[w1].device_id)
           IN  /\ Cardinality(rows) = 1
               /\ \A r \in rows : r.is_online

\* C2: at most one Device row per (gateway, device_id), and every Device row
\* references exactly one existing Gateway row
C2_UniquePairAndGateway ==
    /\ \A g \in GatewayIds, d \in DeviceIds :
          Cardinality(DevicesOfPair(db, g, d)) <= 1
    /\ \A r \in db.devices : Cardinality(GatewayById(db, r.gateway)) = 1

\* C2 witness: a handler's auto-create lost the insert race for the pair
\* against the row that the API's create had inserted
C2_Witness ==
    /\ \E w \in Workers : outcome[w] = "IntegrityError"
    /\ \E r \in db.devices :
          r.gateway = "gw1" /\ r.type = DEVICE_TYPE_RELAY

\* C3: a handler that loses the insert race for its (gateway, device_id)
\* reads back the winner's row and completes; it never ends in an error
C3_RaceLoserCompletes ==
    \A w \in Workers : outcome[w] # "IntegrityError"

\* C4: when a data event has been processed, its device is online, the
\* device's last_telemetry is a time within the processing of the event, and
\* so is the last_seen of the gateway that owns the device
C4_DataMarksOnlineAndSeen ==
    [][\A w \in Workers :
          (/\ pc[w] = "commit" /\ pc'[w] = "idle" /\ outcome'[w] = "ok"
           /\ ev[w].kind = "data")
          => \A r \in db'.devices :
                r.id = loc[w].device
                => /\ r.is_online
                   /\ r.last_telemetry >= ev[w].t
                   /\ \A g \in GatewayById(db', r.gateway) :
                         g.last_seen >= ev[w].t]_vars

\* C5: the writes of one event become visible all together or not at all:
\* while the event is being handled none is visible, after a failure none is
\* visible, and after success all of them are
C5_AllOrNothing ==
    \A w \in Workers :
        /\ applied[w] \in {0, issued[w]}
        /\ pc[w] # "idle" => applied[w] = 0
        /\ outcome[w] \in {"error", "IntegrityError"} => applied[w] = 0
        /\ outcome[w] = "ok" => applied[w] = issued[w]

\* C5 witness: the event of one worker failed after two of its writes had
\* been issued, and the event of the other one committed three writes
C5_Witness ==
    \E w1, w2 \in Workers :
        /\ outcome[w1] = "error" /\ issued[w1] >= 2 /\ applied[w1] = 0
        /\ outcome[w2] = "ok" /\ applied[w2] >= 3

\* C6: a command or discover request is answered "sent" only if its message
\* was handed to the broker, and is answered "MQTT service unavailable"
\* whenever it was not
C6_SentOnlyWhenHanded ==
    (http.pc = "done" /\ http.status \in {200, 503})
    => (http.status = 200 <=> http.handed)

\* The device a finished command request was about
CommandTarget ==
    IF http.pc = "done" /\ http.op = "command" /\ http.status # 404
       THEN {r \in db.devices : r.id = http.target}
       ELSE {}

\* The request got past the validation
Accepted == http.status \in {200, 503}

\* The numbers a brightness value stands for: the value of a JSON number or
\* boolean, and the number a numeral text reads as
NumberOf(v) ==
    IF v.k \in {"int", "bool"} THEN {v.n}
    ELSE IF v = Str("50") THEN {50}
    ELSE IF v = Str("101") THEN {101}
    ELSE {}

\* C7: for a relay or a switch, toggle without state is rejected and toggle
\* with state "on" is accepted; for a dimmer, set_brightness is accepted
\* exactly if brightness is a number from 0 to 100, both included
C7_ToggleAndBrightness ==
    \A device \in CommandTarget :
        /\ (/\ device.type \in {DEVICE_TYPE_RELAY, DEVICE_TYPE_SWITCH}
            /\ http.body.action = Str("toggle"))
           => /\ http.body.state = Absent => http.status = 400
              /\ http.body.state = Str("on") => Accepted
        /\ (/\ device.type = DEVICE_TYPE_DIMMER
            /\ http.body.action = Str("set_brightness"))
           => (Accepted <=> \E n \in NumberOf(http.body.brightness) :
                               0 <= n /\ n <= 100)

\* C7 witness: set_brightness with brightness 100 was sent to a dimmer
C7_Witness ==
    /\ \E device \in CommandTarget : device.type = DEVICE_TYPE_DIMMER
    /\ http.body.action = Str("set_brightness")
    /\ http.body.brightness = Number(100)
    /\ http.status = 200 /\ http.handed

\* C8: every command handed to the broker for a relay or a switch carries a
\* state among true, false, "on", "off", 1, 0, and every command handed to
\* the broker for a dimmer carries a number from 0 to 100 as brightness
C8_PublishedCarriesParameter ==
    \A i \in 1..Len(delivered) :
        LET m == delivered[i]
        IN  m.kind = "command"
            => /\ m.device_type \in {DEVICE_TYPE_RELAY, DEVICE_TYPE_SWITCH}
                  => m.body.state \in {Bool(TRUE), Bool(FALSE), Str("on"),
                                       Str("off"), Number(1), Number(0)}
               /\ m.device_type = DEVICE_TYPE_DIMMER
                  => \E n \in NumberOf(m.body.brightness) :
                        0 <= n /\ n <= 100

\* The command request at the view is one that has to be rejected: its
\* device is a sensor, or it is a toggle without state for a relay, or a
\* set_brightness of 101 for a dimmer
MustReject ==
    /\ http.pc = "view" /\ http.op = "command"
    /\ \E device \in OwnDevices(db, http.user, http.target) :
          \/ device.type = DEVICE_TYPE_SENSOR
          \/ /\ device.type = DEVICE_TYPE_RELAY
             /\ http.body.action = Str("toggle")
             /\ http.body.state = Absent
          \/ /\ device.type = DEVICE_TYPE_DIMMER
             /\ http.body.action = Str("set_brightness")
             /\ http.body.brightness = Number(101)

\* C9: the view answers such a request with 400, and a view that answers
\* 400 publishes nothing and leaves the bridge and all rows as they were
C9_RejectionChangesNothing ==
    [][/\ (MustReject /\ http'.pc # "view") => http'.status = 400
       /\ (http.pc = "view" /\ http'.status = 400)
          => /\ ~http'.handed
             /\ UNCHANGED <<bridge, delivered, db>>]_vars

\* C9 witness: a command for a sensor was rejected while the bridge was
\* connected
C9_Witness ==
    /\ http.pc = "done" /\ http.op = "command" /\ http.status = 400
    /\ \E r \in db.devices : r.id = http.target /\ r.type = DEVICE_TYPE_SENSOR
    /\ bridge.connected /\ brokerUp

\* A claim request has been answered in this step
ClaimAnswered ==
    /\ api'.op = "none"
    /\ apiLog'.req.op = "claim"
    /\ nApi' = nApi + 1 \/ api.op = "claim"

\* C10: a claim for a gateway that another user owns is answered with a
\* conflict and leaves the gateway rows as they were, and no step changes
\* the owner of a gateway that exists
C10_ClaimKeepsOwner ==
    [][/\ \A gw \in db.gateways :
             \E gw2 \in db'.gateways :
                gw2.gateway_id = gw.gateway_id /\ gw2.owner = gw.owner
       /\ (/\ ClaimAnswered
           /\ \E gw \in GatewayById(db, apiLog'.req.gateway_id) :
                 gw.owner # apiLog'.req.user)
          => /\ apiLog'.status = 409
             /\ db'.gateways = db.gateways]_vars

\* C10 witness: a claim for a named gateway of another user was answered
\* with a conflict
C10_Witness ==
    /\ apiLog.req.op = "claim" /\ apiLog.status = 409
    /\ apiLog.req.name = "lab"
    /\ \E gw \in apiLog.before : gw.owner # apiLog.req.user

\* The wait after more failed attempts in a row is not shorter
NoShorter(old, new) ==
    (old.failed >= 1 /\ new.failed > old.failed)
    => old.wait_time <= new.wait_time

NeverAccepted ==
    \A i \in 1..Len(delivered) : delivered[i].kind # "announce"

\* C12: while the broker has accepted no connection, one call of start()
\* makes at most _max_connection_attempts attempts to connect
C12_AttemptsBounded ==
    NeverAccepted
    => \A t \in Threads : Th(t).tries <= MaxConnectionAttempts

\* C13: at most one MqttBridge object with its client is ever made, and no
\* thread enters start() while another thread is in it
C13_OneBridgeOneConnect ==
    /\ clients <= 1
    /\ ~(http.pc \in {"start", "sleep"} /\ asgi.pc \in {"start", "sleep"})

\* A topic with fewer than three segments or with a prefix other than
\* devices/ and gateways/
Unroutable(topic) ==
    Len(topic) < 3 \/ topic[1] \notin {"devices", "gateways"}

\* Worker w is given a message in this step
Arrives(w) == now' = now + 1 /\ ev'[w].t = now'

GatewayKeys(rows) == {g.gateway_id : g \in rows.gateways}

\* C19: no step of the ingestion creates a Gateway row; a status message for
\* an existing gateway changes nothing but that gateway's last_seen, and a
\* status message for an unknown gateway_id leaves all rows as they are
C19_NoGatewayFromEvents ==
    [][/\ GatewayKeys(db') = GatewayKeys(db)
       /\ Cardinality(db'.gateways) = Cardinality(db.gateways)
       /\ \A w \in Workers :
             (Arrives(w) /\ ev'[w].kind = "status")
                => LET g == ev'[w].topic[2]
                   IN  IF g \in GatewayKeys(db)
                          THEN /\ db' = update_last_seen(db, g, now')
                               /\ \A r \in db'.gateways :
                                     r.gateway_id = g => r.last_seen = now'
                          ELSE db' = db]_vars

\* C19 witness: a status message for an unknown gateway and one for gw1 have
\* been handled; gw1 is refreshed and the unknown gateway has no row
C19_Witness ==
    /\ UnknownGateway \notin GatewayKeys(db)
    /\ \E w1, w2 \in Workers :
          /\ ev[w1].kind = "status" /\ ev[w1].topic[2] = UnknownGateway
          /\ ev[w2].kind = "status" /\ ev[w2].topic[2] = "gw1"
          /\ \E r \in db.gateways :
                r.gateway_id = "gw1" /\ r.last_seen = ev[w2].t

FanoutFails(w) == pc[w] = "fanout" /\ pc'[w] # "fanout" /\ fanout' = fanout

\* C17: a failed broadcast of the fan-out event does not roll the data event
\* back: its Telemetry write and its online update stay in the transaction,
\* the handler goes on to the commit and no error is recorded for it, and a
\* committed data event has its Telemetry row whether or not it was broadcast
C17_FanoutFailureKeepsTelemetry ==
    [][\A w \in Workers :
          /\ FanoutFails(w)
                => /\ pc'[w] = "commit"
                   /\ tx'[w] = tx[w]
                   /\ outcome'[w] = outcome[w]
                   /\ \E i \in 1..Len(tx[w]) : tx[w][i].op = "telemetry"
                   /\ \E i \in 1..Len(tx[w]) : tx[w][i].op = "online"
          /\ (pc[w] = "commit" /\ ev[w].kind = "data" /\ outcome'[w] = "ok")
                => \E i \in 1..Len(db'.telemetry) :
                      /\ db'.telemetry[i].timestamp >= ev[w].t
                      /\ \E r \in db'.devices :
                            /\ r.id = db'.telemetry[i].device
                            /\ r.device_id = ev[w].device_id
                            /\ r.last_telemetry >= ev[w].t]_vars

\* C17 witness: a data event is committed with its Telemetry row and its
\* device online although nothing was ever broadcast
C17_Witness ==
    /\ fanout = <<>>
    /\ \E w \in Workers :
          /\ ev[w].kind = "data" /\ outcome[w] = "ok"
          /\ \E i \in 1..Len(db.telemetry) :
                /\ db.telemetry[i].timestamp >= ev[w].t
                /\ \E r \in db.devices :
                      /\ r.id = db.telemetry[i].device
                      /\ r.device_id = ev[w].device_id
                      /\ r.is_online

\* A view calls bridge.publish in this step
Publishes == http.pc = "send" /\ http'.pc = "done" /\ bridge.exists

\* C18: publish on a bridge that is not connected hands nothing to the
\* broker and returns False; it returns True only when the bridge is
\* connected and the client reported success, and then exactly the message
\* is handed over
C18_PublishOnlyWhenConnected ==
    [][Publishes
          => /\ ~bridge.connected
                   => ~http'.handed /\ delivered' = delivered
             /\ http'.handed
                   => /\ bridge.connected
                      /\ client_publish(bridge, brokerUp) = "MQTT_ERR_SUCCESS"
                      /\ delivered' = Append(delivered, RequestMessage)
             /\ ~http'.handed => delivered' = delivered]_vars

\* C18 witness: publish was called on a bridge that is not connected while
\* the broker was reachable; it returned False and nothing was handed over
C18_Witness ==
    /\ http.pc = "done" /\ http.status = 200 /\ ~http.handed
    /\ bridge.exists /\ ~bridge.connected /\ ~bridge.lost /\ brokerUp
    /\ \A i \in 1..Len(delivered) : delivered[i].kind = "announce"

\* The elements of a sequence
Range(seq) == {seq[i] : i \in 1..Len(seq)}

\* The time of the Telemetry row with primary key pk
Stamp(pk) == db.telemetry[pk].timestamp

\* C15: the answer to a telemetry list request holds the matching records
\* newest first, and with a positive limit n exactly the first n of them
C15_NewestFirstAndLimit ==
    listing.user # "none"
       => LET pks == Selected(db, listing)
              results == listing.results
              n == IF Sliced(listing) /\ listing.limit.n < Cardinality(pks)
                      THEN listing.limit.n ELSE Cardinality(pks)
          IN  /\ listing.status = 200
              /\ Len(results) = n
              /\ Range(results) \subseteq pks
              /\ Cardinality(Range(results)) = n
              /\ \A i, j \in 1..Len(results) :
                    i < j => Stamp(results[i]) >= Stamp(results[j])
              /\ \A pk \in pks \ Range(results) :
                    \A r \in Range(results) : Stamp(r) >= Stamp(pk)

\* C16: a telemetry list request with since and until is answered with
\* exactly the requester's records stamped in the half-open interval
\* [since, until)
C16_HalfOpenInterval ==
    (/\ listing.status = 200
     /\ IsDatetime(listing.since) /\ IsDatetime(listing.until)
     /\ listing.device = Absent /\ listing.device_type = Absent
     /\ listing.limit = Absent)
       => Range(listing.results) =
             {pk \in OwnTelemetry(db, listing.user) :
                 listing.since.n <= Stamp(pk) /\ Stamp(pk) < listing.until.n}

\* The text of a since or until parameter that is given but is no timestamp
NotATimestamp(v) == v.k # "absent" /\ ~IsDatetime(v)

\* C21: a telemetry list request whose since or until is not a valid
\* timestamp is answered with an error, never with results
C21_InvalidBoundRejected ==
    (listing.user # "none"
        /\ (NotATimestamp(listing.since) \/ NotATimestamp(listing.until)))
       => listing.status >= 400 /\ listing.results = <<>>

\* Sequence s is the beginning of sequence t
IsPrefix(s, t) == Len(s) <= Len(t) /\ SubSeq(t, 1, Len(s)) = s

\* C22: Telemetry is append-only: every step leaves the rows there are as
\* they were (device, timestamp and payload) and at most adds rows after them
C22_TelemetryAppendOnly ==
    [][IsPrefix(db.telemetry, db'.telemetry)]_vars

\* C22 witness: two data events have been stored, the older row before the
\* newer one
C22_Witness ==
    /\ Len(db.telemetry) >= 2
    /\ db.telemetry[1].timestamp <= db.telemetry[2].timestamp
    /\ \A w \in Workers : ev[w].kind = "data" /\ outcome[w] = "ok"

\* The request of connection c proves who its user is: a valid token, or no
\* token and the session of a logged-in user
ProvenUser(c) ==
    \/ ws.conn[c].token \in Users
    \/ ws.conn[c].token = "none" /\ ws.conn[c].session \in Users

\* C23: a connection is a member of the "telemetry" group, or accepted, only
\* if its user is authenticated; a connection of an unauthenticated user is
\* closed and is no member
C23_OnlyAuthenticatedJoin ==
    \A c \in Connections :
        /\ (c \in ws.group \/ ws.conn[c].pc \in {"accept", "open"})
              => ProvenUser(c) /\ ws.conn[c].user \in Users
        /\ ws.conn[c].pc \in {"accept", "open"} => c \in ws.group
        /\ (ws.conn[c].pc \notin {"none", "connect"} /\ ~ProvenUser(c))
              => ws.conn[c].pc = "closed" /\ c \notin ws.group
        /\ ws.conn[c].pc = "closed" => c \notin ws.group

\* C23 witness: one connection with a valid token is an accepted member, and
\* one with a rejected token (over a logged-in session) has been closed
C23_Witness ==
    \E c1, c2 \in Connections :
        /\ ws.conn[c1].pc = "open" /\ c1 \in ws.group
        /\ ws.conn[c1].token \in Users
        /\ ws.conn[c2].pc = "closed" /\ ws.conn[c2].token = "expired"
        /\ ws.group = {c1}

\* The owner of the gateway with the given gateway_id
OwnersOf(rows, g) == {r.owner : r \in GatewayById(rows, g)}

\* C40: every telemetry event a WebSocket connection has been sent is of a
\* device whose gateway is owned by the connection's authenticated user: no
\* event of another user's device reaches it
C40_EventsOnlyToOwner ==
    \A c \in Connections :
        \A e \in ws.conn[c].inbox :
            OwnersOf(db, e.gateway_id) = {ws.conn[c].user}

\* C24: the payload published for a command carries the device_id, the type
\* and the gateway_id of the target device's row, the time of the dispatch
\* and a command_id, whatever the request body says for those keys
C24_MetadataFromDevice ==
    \A i \in 1..Len(delivered) :
        LET m == delivered[i]
        IN  m.kind = "command"
            => \E r \in db.devices :
                  /\ m.topic = <<"devices", r.device_id, "commands">>
                  /\ m.device_id = r.device_id
                  /\ m.device_type = r.type
                  /\ m.gateway_id = r.gateway
                  /\ m.timestamp = now
                  /\ m.command_id = <<r.device_id, m.timestamp>>

\* C24 witness: a command whose body brought its own values for all the
\* stamped keys has been handed to the broker
C24_Witness ==
    /\ http.pc = "done" /\ http.status = 200 /\ http.handed
    /\ \E i \in 1..Len(delivered) :
          /\ delivered[i].kind = "command"
          /\ delivered[i].body.extra = StampedKeys

\* C30: no two commands handed to the broker carry the same command_id
C30_CommandIdsDiffer ==
    \A i, j \in 1..Len(delivered) :
        (i < j /\ delivered[i].kind = "command"
               /\ delivered[j].kind = "command")
           => delivered[i].command_id # delivered[j].command_id

\* Worker w commits the writes of its event in this step
Commits(w) == pc[w] = "commit" /\ pc'[w] = "idle" /\ outcome'[w] = "ok"

\* The primary keys of the Device rows
DeviceKeys(rows) == {r.id : r \in rows.devices}

\* C25: a heartbeat for a device_id that has a Device row leaves that row
\* online and the last_seen of the row's gateway at the time of the
\* heartbeat's processing, and adds no Device row
C25_HeartbeatKnownDevice ==
    [][\A w \in Workers :
          (Commits(w) /\ ev[w].kind = "heartbeat"
              /\ loc[w].device \in DeviceKeys(db))
             => /\ DeviceKeys(db') = DeviceKeys(db)
                /\ Cardinality(db'.devices) = Cardinality(db.devices)
                /\ \E r \in db'.devices :
                      /\ r.id = loc[w].device
                      /\ r.device_id = ev[w].device_id
                      /\ r.is_online
                      /\ \E g \in db'.gateways :
                            /\ g.gateway_id = r.gateway
                            /\ ev[w].t <= g.last_seen
                            /\ g.last_seen <= now]_vars

\* C25 witness: a device created offline through the REST API has been
\* brought online by a heartbeat, and its gateway's last_seen is refreshed
C25_Witness ==
    \E w \in Workers :
        /\ ev[w].kind = "heartbeat" /\ outcome[w] = "ok" /\ applied[w] = 2
        /\ \E r \in db.devices :
              /\ r.device_id = ev[w].device_id /\ r.type \in RaceTypes
              /\ r.is_online
              /\ \E g \in db.gateways :
                    g.gateway_id = r.gateway /\ g.last_seen >= ev[w].t
        /\ Cardinality(db.devices) = 1

\* Worker w's handler ends in this step after it had found no device and
\* had resolved the gateway of the payload; the step is not a failure of
\* the database itself
CreateBranchEnds(w) ==
    /\ \/ pc[w] = "create"
       \/ pc[w] = "commit" /\ loc[w].device \notin DeviceKeys(db)
    /\ pc'[w] = "idle"
    /\ outcome'[w] # "error"

\* C26: a heartbeat for an unknown device_id that names an existing gateway
\* leaves exactly one Device row of that device_id under that gateway,
\* online, with the type of the payload (sensor if it has none), and the
\* gateway's last_seen refreshed
C26_HeartbeatCreatesDevice ==
    [][\A w \in Workers :
          (ev[w].kind = "heartbeat" /\ CreateBranchEnds(w))
             => LET rows == DevicesOfPair(db', loc[w].gateway,
                                          ev[w].device_id)
                IN  /\ Cardinality(rows) = 1
                    /\ \A r \in rows :
                          /\ r.is_online
                          /\ r.type = TypeOfPayload(ev[w].payload)
                    /\ \A g \in GatewayById(db', loc[w].gateway) :
                          g.last_seen >= ev[w].t]_vars

\* C27: an event for an unknown device_id whose payload names no gateway,
\* or a gateway that has no row, ends there: the handler is dropped having
\* issued no write, and rows and fan-out are as they were
C27_NoGatewayDropsEvent ==
    [][\A w \in Workers :
          (/\ pc[w] = "get_gateway"
           /\ pc'[w] # "get_gateway"
           /\ \A g \in db.gateways :
                 g.gateway_id # ev[w].payload.gateway_id)
             => /\ pc'[w] = "idle"
                /\ outcome'[w] = "dropped"
                /\ db' = db
                /\ fanout' = fanout
                /\ issued'[w] = 0
                /\ tx'[w] = <<>>]_vars

\* Witness for C27: a heartbeat without gateway_id and a data event naming a
\* gateway without row were both dropped, and there is no device
C27_Witness ==
    /\ ev["w1"].kind = "heartbeat"
    /\ ev["w1"].payload.gateway_id = NoGateway
    /\ ev["w2"].kind = "data"
    /\ ev["w2"].payload.gateway_id = UnknownGateway
    /\ \A w \in Workers : outcome[w] = "dropped"
    /\ db.devices = {}
    /\ db.telemetry = <<>>
    /\ fanout = <<>>

\* A topic the router has no handler for: too short, a foreign prefix, or an
\* event kind other than heartbeat/data of a device and status of a gateway
NoHandlerFor(topic) ==
    \/ Len(topic) < 3
    \/ topic[1] \notin {"devices", "gateways"}
    \/ topic[1] = "devices" /\ topic[3] \notin {"heartbeat", "data"}
    \/ topic[1] = "gateways" /\ topic[3] # "status"

\* C28: a message with fewer than three topic segments, with a prefix other
\* than devices/ and gateways/ (debug/ too), or with an event kind that has
\* no handler starts no handler and issues no write: rows and fan-out are
\* unchanged by its arrival
C28_NoHandlerNoEffect ==
    [][\A w \in Workers :
          (Arrives(w) /\ NoHandlerFor(ev'[w].topic))
             => /\ db' = db
                /\ fanout' = fanout
                /\ pc'[w] = "idle"
                /\ tx'[w] = <<>>
                /\ issued'[w] = 0
                /\ applied'[w] = 0]_vars

\* Witness for C28: a devices/dev1/config and a gateways/gw1/config message
\* were both ignored although dev1's gateway is named in a body, and no row
\* was created or refreshed
C28_Witness ==
    /\ ev["w1"].topic = <<"devices", "dev1", "config">>
    /\ ev["w1"].payload.gateway_id = "gw1"
    /\ ev["w2"].topic = <<"gateways", "gw1", "config">>
    /\ \A w \in Workers : outcome[w] = "ignored" /\ pc[w] = "idle"
    /\ db.devices = {}
    /\ \A g \in db.gateways : g.last_seen = 0
    /\ fanout = <<>>

\* The Telemetry row of fan-out event f has been written: it is among the
\* committed rows, or among the writes of an open transaction
Written(f) ==
    \/ \E i \in DOMAIN db.telemetry :
          /\ db.telemetry[i].timestamp = f.timestamp
          /\ \E r \in db.devices :
                r.id = db.telemetry[i].device /\ r.device_id = f.device_id
    \/ \E w \in Workers : \E i \in DOMAIN tx[w] :
          /\ tx[w][i].op = "telemetry"
          /\ tx[w][i].t = f.timestamp
          /\ tx[w][i].device_id = f.device_id

\* C29: the fan-out events of one device follow the order of their Telemetry
\* rows (the rows' persistence timestamps never decrease along the events),
\* and every fan-out event has its Telemetry row written
C29_FanoutInPersistenceOrder ==
    /\ \A i, j \in DOMAIN fanout :
          (i < j /\ fanout[i].device_id = fanout[j].device_id)
             => fanout[i].timestamp <= fanout[j].timestamp
    /\ \A i \in DOMAIN fanout : Written(fanout[i])

\* C31: a command that reached _send_mqtt_command while there was no bridge
\* object, or one that was not connected, has had start_bridge_if_enabled
\* called for it exactly once by the time the view answers
C31_OneReinitWhenUnavailable ==
    (http.op = "command" /\ http.pc = "done" /\ http.down)
       => http.reinit = 1

\* on_disconnect has run for a lost connection and no thread is in start()
Dropped ==
    /\ bridge.exists /\ ~bridge.connected /\ bridge.attempts = 0
    /\ ~bridge.pending /\ ~bridge.lost
    /\ http.pc \in {"none", "done"}

\* C32: after on_disconnect with a non-zero reason code (attempts reset to
\* 0) the bridge becomes connected again while the broker is reachable,
\* without start_bridge_if_enabled being called
C32_ReconnectsAfterDisconnect ==
    []((Dropped /\ brokerUp /\ nApi = MaxApiCalls)
          => <>(bridge.connected \/ ~brokerUp))

\* The model definition linked to the Device row with primary key pk
LinkOf(rows, pk) == {r.model_definition : r \in {d \in rows.devices : d.id = pk}}

\* C33: a data event that declares a model links its device when the device
\* has no model definition and one with that model_id exists; when none
\* exists the Telemetry row is stored and the device is online all the same;
\* and no step changes the model definition a device is already linked to
C33_LinkOnlyUnlinked ==
    [][/\ \A w \in Workers :
             (Commits(w) /\ ev[w].kind = "data"
              /\ ev[w].payload.model_id # NoModel)
                => LET m == ev[w].payload.model_id
                       pk == loc[w].device
                   IN  /\ (LinkOf(db, pk) \subseteq {NoModel}
                           /\ m \in db.modelDefs)
                             => LinkOf(db', pk) = {m}
                       /\ m \notin db.modelDefs
                             => /\ Len(db'.telemetry) = Len(db.telemetry) + 1
                                /\ \A r \in db'.devices :
                                      r.id = pk => r.is_online
       /\ \A r \in db.devices :
             r.model_definition # NoModel
                => LinkOf(db', r.id) = {r.model_definition}]_vars

\* The body of the finished request is a camera command the validation lets
\* through
CameraCommandOk ==
    /\ http.body.action \in {Str("start_recording"), Str("stop_recording"),
                              Str("take_snapshot"), Str("set_quality")}
    /\ http.body.action = Str("set_quality")
          => http.body.quality \in {Str("low"), Str("medium"), Str("high")}

\* C34: a command for a camera gets past the validation exactly if its
\* action is start_recording, stop_recording, take_snapshot or set_quality,
\* and for set_quality the quality is low, medium or high; a rejected command
\* is answered 400 and no command with its body is handed to the broker
C34_CameraCommands ==
    \A device \in CommandTarget :
        device.type = DEVICE_TYPE_CAMERA
           => /\ Accepted <=> CameraCommandOk
              /\ ~CameraCommandOk
                    => /\ http.status = 400
                       /\ ~http.handed
                       /\ \A i \in 1..Len(delivered) :
                             delivered[i].kind = "command"
                                => delivered[i].body # http.body

\* Witness for C34: set_quality with quality low was handed to the broker for
\* a camera
C34_Witness ==
    /\ \E device \in CommandTarget : device.type = DEVICE_TYPE_CAMERA
    /\ http.body.action = Str("set_quality")
    /\ http.body.quality = Str("low")
    /\ http.status = 200 /\ http.handed
    /\ \E i \in 1..Len(delivered) :
          delivered[i].kind = "command" /\ delivered[i].body = http.body

\* C35: the type of every Device row is one of sensor, actuator, camera,
\* relay, dimmer and switch, whichever path created the row
C35_DeviceTypesValid == \A r \in db.devices : r.type \in DEVICE_TYPES

\* C36: no step of the handlers of heartbeat, data and gateway status
\* messages takes a device from online to offline
C36_OnlineNeverCleared ==
    [][\A r \in db.devices :
          r.is_online => \A n \in db'.devices : n.id = r.id => n.is_online]_vars

\* Witness for C36: a device is still online although time has moved on
\* since its last telemetry and since its gateway was last seen, the last
\* message having been a gateway status message
C36_Witness ==
    /\ \A w \in Workers : pc[w] = "idle"
    /\ \E w \in Workers : ev[w].kind = "status" /\ ev[w].t = now
    /\ \E r \in db.devices :
          /\ r.is_online
          /\ r.last_telemetry < now
          /\ \A g \in GatewayById(db, r.gateway) : g.last_seen < now

\* C37: when a heartbeat or data event that names an existing gateway G has
\* been processed, a Device row of its device_id exists under G and is
\* online, and G's last_seen is a time within the processing of the event,
\* whatever rows of that device_id other gateways have
C37_RowUnderNamedGateway ==
    [][\A w \in Workers :
          (/\ Commits(w)
           /\ ev[w].kind \in {"heartbeat", "data"}
           /\ GatewayById(db, ev[w].payload.gateway_id) # {})
             => /\ \E r \in DevicesOfPair(db', ev[w].payload.gateway_id,
                                            ev[w].device_id) : r.is_online
                /\ \A g \in GatewayById(db', ev[w].payload.gateway_id) :
                      g.last_seen >= ev[w].t]_vars

\* C38: start(), called by start_bridge_if_enabled on a bridge that is not
\* connected while the broker is reachable, does not return without having
\* made a connection attempt, also after an earlier start() has given up
C38_GivenUpBridgeRetries ==
    [][(/\ http.pc = "start" /\ http'.pc = http.ret
        /\ bridge.exists /\ ~bridge.connected /\ brokerUp)
          => http.tries > 0]_vars

\* C39: once stop_bridge has been called, the network loop of the bridge it
\* let go is stopped and its client disconnected (or the loop was never
\* started): no former bridge waits for a connection, runs a loop or is
\* subscribed
C39_StopLeavesNothing ==
    former.stops > 0 => former.loop \in {"none", "stopped"}
====
